---- MODULE Spec2Model ----
(***************************************************************************)
(* State persistence engine of the TI-89 PWA wrapper.                      *)
(*                                                                         *)
(*   js/storage-fallback.js   TI89StorageFallback  (bounded fallback store)*)
(*   js/state-manager.js      TI89StateManager     (two-tier manager)      *)
(*   js/ios-state-manager.js  iOSStateManager      (lifecycle manager)     *)
(*                                                                         *)
(*   calculator-bridge        (capture bridge inside the frame)            *)
(*                                                                         *)
(* The specifications share one initial state: SpecFallback, SpecOutage    *)
(* and SpecBackup drive the fallback store alone; Spec and SpecOverlap     *)
(* drive the State Manager (which owns a fallback store when IndexedDB     *)
(* could not be opened), as do SpecListeners and SpecClear; SpecLifecycle, *)
(* SpecSession, SpecEvents and SpecReturn drive the iOS manager;           *)
(* SpecBridge and SpecRestore drive the capture bridge; SpecTimers drives  *)
(* the repeating timers of all of them.  Snapshots are                     *)
(* abstract contents (States); 0 stands for a falsy argument (null /       *)
(* undefined).                                                             *)
(***************************************************************************)
EXTENDS Integers, Sequences, FiniteSets, TLC

(* ------------------------------ bounds -------------------------------- *)
MaxTime == 7
MaxClock == 2
MaxPending == 1
MaxListeners == 1

(* ------------------------- program constants -------------------------- *)
maxStates == 5

VARIABLES
    localStorage,     \* value stored under 'ti89_calculator_state'
    now,              \* Date.now()
    fbLast,           \* the fallback store's last completed call (api: the
                      \* key-value API worked when it was made)
    fbAdded,          \* entries pushed into the history since it was last emptied
    fbEvictedMax,     \* newest timestamp truncated away since then (-1: none)
    fbImported,       \* the stored history was written by importData
    fbMixed,          \* the stored history may hold entries importData put there
    fbCleared,        \* clearState removed the unit and nothing was written since
    backup            \* what the last exportData() call returned, kept by the caller

VARIABLES
    db,               \* this.db is an open database
    useIndexedDB,     \* this.useIndexedDB
    fallbackStorage,  \* this.fallbackStorage is a TI89StorageFallback
    initPending,      \* initStorage() has not settled yet
    lastStateHash,    \* this.lastStateHash
    listeners,        \* 'message' listeners registered by setIframe
    idb,              \* IndexedDB record under key 'ti89_session'
    pendingSaves,     \* saveState calls suspended at `await this.hashString`
    pendingLoad,      \* loadState requests whose onsuccess has not fired yet
    smLastSave,       \* the last completed saveState call and how it follows the one
                      \* before it, while no clearState, loadState or page load
                      \* settled since
    smCleared,        \* clearState removed the active tier's record, nothing written since
    smEvent           \* the last step: a settled loadState, a malformed message, or other

fbGhost == <<fbLast, fbAdded, fbEvictedMax, fbImported, fbMixed, fbCleared, backup>>
fbVars == <<localStorage, now, fbGhost>>

smMem == <<db, useIndexedDB, fallbackStorage, initPending, lastStateHash, listeners,
           pendingSaves, pendingLoad>>
smGhost == <<smLastSave, smCleared, smEvent>>
smVars == <<smMem, idb, smGhost>>

VARIABLES
    storageAvailable,     \* this.storageAvailable, probed once by the constructor
    iosIframe,            \* this.iframe is set
    iframeSrc,            \* the frame element's src attribute
    iframeHref,           \* the address the frame's window is at
    lastUrl,              \* this.lastUrl
    urlMonitorInterval,   \* the 2000 ms address poll is running
    iosAutoSaveInterval,  \* the auto-save timer is running
    lastSaveTime,         \* this.lastSaveTime
    iosState,             \* localStorage['ti89_ios_state'] (parsed)
    iosUrl,               \* localStorage['ti89_last_url']
    sessionId,            \* sessionStorage['ti89_session_id']
    restoreTimers,        \* scheduled restoreState() calls
    navTimers,            \* scheduled `iframe.src = savedUrl` assignments
    captureTimers,        \* scheduled captureIframeState() calls
    iosPoll,              \* the last captureIframeState run that read an address
    iosObserved,          \* the last saveable address a capture has read on this page
    iosClearedSince       \* clearState() ran after that capture

iosMem == <<storageAvailable, iosIframe, lastUrl, urlMonitorInterval, iosAutoSaveInterval,
            lastSaveTime, restoreTimers, navTimers, captureTimers>>
iosStore == <<iosState, iosUrl, sessionId>>
iosFrame == <<iframeSrc, iframeHref>>
iosGhost == <<iosPoll, iosObserved, iosClearedSince>>
iosVars == <<iosMem, iosStore, iosFrame, iosGhost>>

VARIABLES
    intervals,            \* the repeating timers that are running, counted per callback
    autoSaveInterval,     \* TI89StateManager: this.autoSaveInterval holds a timer
    requestsInFlight      \* REQUEST_STATE messages posted to the frame, not yet delivered

timerVars == <<intervals, autoSaveInterval, requestsInFlight>>

VARIABLES
    lastScreenCapture,    \* calculator-bridge: serialization of the last snapshot emitted
    captureInterval,      \* captureInterval holds a timer
    stateRequestPending,  \* a requested capture waits for its 100 ms timeout
    requestTimers,        \* 100 ms timeouts set by REQUEST_STATE and not yet fired
    startTimer,           \* the 1000 ms timeout set when the script loads is pending
    initialTimers,        \* 2000 ms timeouts for the first capture, not yet fired
    cbContent,            \* what the embedded page shows and stores
    cbHidden,             \* document.hidden in the frame
    cbInFrame,            \* window.parent !== window
    cbEvent               \* captureCalculatorState runs and messages posted by the last step

cbMem == <<lastScreenCapture, captureInterval, stateRequestPending, requestTimers,
           startTimer, initialTimers>>
cbPage == <<cbContent, cbHidden, cbInFrame>>
cbVars == <<cbMem, cbPage, cbEvent>>

vars == <<fbVars, smVars, iosVars, timerVars, cbVars>>

\* the state as text: two states can be compared whatever kinds of value
\* (null, a string, a pair) a variable holds in each
varsText == ToString(vars)

(* ------------------------------ values -------------------------------- *)
Null == [null |-> TRUE]
NoState == 0
\* two snapshot contents: enough to tell a snapshot from a different one
States == {1, 2}

(* ------------------------- repeating timers ---------------------------- *)
TimerKinds == {"smAutoSave", "iosAutoSave", "urlMonitor", "capture"}
NoTimers == [k \in TimerKinds |-> 0]

\* setInterval(callback, ms) and clearInterval(handle of a running timer)
setInterval(tm, kind) == [tm EXCEPT ![kind] = @ + 1]
clearInterval(tm, kind) == [tm EXCEPT ![kind] = @ - 1]

StopTimerUnguarded(handle, tm, kind) ==
    [handle |-> FALSE, tm |-> clearInterval(tm, kind)]

\* if (handle) { clearInterval(handle); handle = null; }
\* the body of stopAutoSave (both managers), stopUrlMonitoring and
\* stopStateCapture
StopTimer(handle, tm, kind) ==
    IF handle THEN [handle |-> FALSE, tm |-> clearInterval(tm, kind)]
    ELSE [handle |-> handle, tm |-> tm]

StartTimerKeepsOld(handle, tm, kind) ==
    [handle |-> TRUE, tm |-> setInterval(tm, kind)]

\* the old timer, if the handle holds one, is cleared, then
\* handle = setInterval(...): the body of startAutoSave (both managers),
\* startUrlMonitoring and startStateCapture
StartTimer(handle, tm, kind) ==
    [handle |-> TRUE, tm |-> setInterval(StopTimer(handle, tm, kind).tm, kind)]

\* the record of a start or stop call, kept where record is set: a start that
\* found a timer running, a stop that found none
TimerCall(record, isStart, handle, none) ==
    IF record /\ isStart /\ handle THEN "restart"
    ELSE IF record /\ ~isStart /\ ~handle THEN "idleStop"
    ELSE none

Min(a, b) == IF a < b THEN a ELSE b
Max(a, b) == IF a > b THEN a ELSE b

\* { state, timestamp: Date.now(), version: 1 }
Entry(s, t) == [state |-> s, timestamp |-> t, version |-> 1]

\* { current, history } as written by JSON.stringify and read by JSON.parse
Unit(cur, hist) == [current |-> cur, history |-> hist]

(* ------------------- TI89StorageFallback, as functions ----------------- *)
NoIO == [first |-> "none", clearOld |-> "none", retry |-> "none"]

isAvailableCached(avail) == TRUE

\* the write/delete probe: it succeeds exactly when the API works
isAvailable(avail) == avail

getAllStates(ls, avail) ==
    IF ~isAvailable(avail) THEN <<>>
    ELSE IF ls = Null THEN <<>>
    ELSE ls.history

RECURSIVE InsertDesc(_, _)
InsertDesc(e, sorted) ==
    IF sorted = <<>> THEN <<e>>
    ELSE IF Head(sorted).timestamp >= e.timestamp
         THEN <<Head(sorted)>> \o InsertDesc(e, Tail(sorted))
         ELSE <<e>> \o sorted

\* Array.prototype.sort((a, b) => b.timestamp - a.timestamp): stable, descending
RECURSIVE SortDesc(_)
SortDesc(seq) ==
    IF seq = <<>> THEN <<>>
    ELSE InsertDesc(seq[Len(seq)], SortDesc(SubSeq(seq, 1, Len(seq) - 1)))

\* Array.prototype.slice(0, n)
Slice(seq, n) == SubSeq(seq, 1, Min(n, Len(seq)))

RecentStatesLong(existing, stateData) ==
    Slice(SortDesc(Append(existing, stateData)), maxStates + 1)

RecentStatesUnsorted(existing, stateData) ==
    Slice(Append(existing, stateData), maxStates)

\* existingStates.push(stateData); sort; slice(0, this.maxStates)
RecentStates(existing, stateData) ==
    Slice(SortDesc(Append(existing, stateData)), maxStates)

\* wc: outcome of clearOldStates' own setItem ("ok" / "fail")
\* a clearing that removes the whole unit, the current entry included
clearOldStatesDropsCurrent(ls, avail, wc) ==
    IF ~isAvailable(avail) \/ ls = Null THEN ls
    ELSE IF wc = "ok" THEN Null ELSE ls

clearOldStates(ls, avail, wc) ==
    IF ~isAvailable(avail) THEN ls
    ELSE IF ls = Null THEN ls
    ELSE IF ls.current # Null /\ wc = "ok" THEN Unit(ls.current, <<>>)
    ELSE ls

RetryKeepsHistory(ls, state, t2) ==
    Unit(Entry(state, t2), IF ls = Null THEN <<>> ELSE ls.history)

\* the unit written by the retry after a quota failure
RetryUnit(ls, state, t2) == Unit(Entry(state, t2), <<>>)

\* w1: outcome of the first setItem ("ok" / "quota" / "error")
\* wc: outcome of clearOldStates' setItem, w2: outcome of the retry
\* t1, t2: Date.now() at the first and at the retried write
\* io: what each setItem of the call did ("none": not attempted)
FB_saveState(ls, avail, state, t1, t2, w1, wc, w2) ==
    IF ~isAvailable(avail) \/ state = NoState
    THEN [ls |-> ls, ret |-> "undefined", path |-> "skipped",
          io |-> NoIO]
    ELSE LET stateData == Entry(state, t1)
             existingStates == getAllStates(ls, avail)
             recentStates == RecentStates(existingStates, stateData)
         IN  IF w1 = "ok"
             THEN [ls |-> Unit(stateData, recentStates), ret |-> "true", path |-> "written",
                   io |-> [first |-> "ok", clearOld |-> "none", retry |-> "none"]]
             ELSE IF w1 = "quota"
             THEN LET cleared == clearOldStates(ls, avail, wc)
                      co == IF ls # Null /\ ls.current # Null THEN wc ELSE "none"
                  IN  IF w2 = "ok"
                      THEN [ls |-> RetryUnit(cleared, state, t2), ret |-> "true",
                            path |-> "retried",
                            io |-> [first |-> "quota", clearOld |-> co, retry |-> "ok"]]
                      ELSE [ls |-> cleared, ret |-> "false", path |-> "retryFailed",
                            io |-> [first |-> "quota", clearOld |-> co, retry |-> "fail"]]
             ELSE [ls |-> ls, ret |-> "false", path |-> "failed",
                   io |-> [first |-> "error", clearOld |-> "none", retry |-> "none"]]

FB_loadStateFromHistory(ls, avail) ==
    IF ~isAvailable(avail) THEN NoState
    ELSE IF ls = Null THEN NoState
    ELSE IF ls.current # Null /\ ls.current.state # NoState THEN ls.current.state
    ELSE IF ls.history # <<>> THEN ls.history[1].state
    ELSE NoState

\* returns data.current.state, or null (NoState)
FB_loadState(ls, avail) ==
    IF ~isAvailable(avail) THEN NoState
    ELSE IF ls = Null THEN NoState
    ELSE IF ls.current # Null /\ ls.current.state # NoState THEN ls.current.state
    ELSE NoState

FB_clearStateKeepsCurrent(ls, avail) ==
    IF ~isAvailable(avail) THEN ls
    ELSE IF ls = Null THEN ls ELSE Unit(ls.current, <<>>)

\* localStorage.removeItem(this.storageKey)
FB_clearState(ls, avail) ==
    IF ~isAvailable(avail) THEN ls ELSE Null

\* { timestamp, states: getAllStates(), current }; readable: the getItem of
\* exportData itself goes through (it is not behind the availability probe)
exportData(ls, avail, readable, t) ==
    [timestamp |-> t,
     states |-> getAllStates(ls, avail),
     current |-> IF readable /\ ls # Null THEN ls.current ELSE Null]

importDataCapped(ls, avail, exportedData, w) ==
    IF exportedData = Null \/ ~isAvailable(avail)
    THEN [ls |-> ls, ret |-> "false"]
    ELSE IF w = "ok"
    THEN [ls |-> Unit(exportedData.current, Slice(exportedData.states, maxStates)),
          ret |-> "true"]
    ELSE [ls |-> ls, ret |-> "false"]

\* w: outcome of setItem
importData(ls, avail, exportedData, w) ==
    IF exportedData = Null \/ ~isAvailable(avail)
    THEN [ls |-> ls, ret |-> "false"]
    ELSE IF w = "ok"
    THEN [ls |-> Unit(exportedData.current, exportedData.states), ret |-> "true"]
    ELSE [ls |-> ls, ret |-> "false"]

(* ---------------------- history bookkeeping (ghost) -------------------- *)
Timestamps(seq) == { seq[i].timestamp : i \in 1..Len(seq) }
CountTs(seq, t) == Cardinality({ i \in 1..Len(seq) : seq[i].timestamp = t })

\* timestamps of the entries of `all` that `kept` no longer holds
DroppedTs(all, kept) == { t \in Timestamps(all) : CountTs(all, t) > CountTs(kept, t) }

SetMax(S, default) == IF S = {} THEN default ELSE CHOOSE m \in S : \A x \in S : x <= m

HistoryOf(ls) == IF ls = Null THEN <<>> ELSE ls.history

IsSortedDesc(seq) ==
    \A i \in 1..(Len(seq) - 1) : seq[i].timestamp >= seq[i + 1].timestamp

AddedCap == maxStates + 2

\* payloads a user can hand to importData: a backup with an over-long,
\* oldest-first history, a backup without a current record, and nothing
ImportPayloads ==
    { [timestamp |-> 0, current |-> Entry(1, 1),
       states |-> [i \in 1..(maxStates + 1) |-> Entry(1 + (i % 2), i % 2)]],
      [timestamp |-> 0, current |-> Null, states |-> <<Entry(1, 0)>>],
      Null }

(* -------------------- SpecFallback: the store alone -------------------- *)
FBInit ==
    /\ localStorage = Null
    /\ now = 0
    /\ fbLast = [op |-> "none", state |-> NoState, ret |-> "undefined", path |-> "none",
                 io |-> NoIO, api |-> TRUE]
    /\ fbAdded = 0
    /\ fbEvictedMax = -1
    /\ fbImported = FALSE
    /\ fbMixed = FALSE
    /\ fbCleared = FALSE
    /\ backup = Null

\* bookkeeping after a call that turned the stored unit from ls into ls2
FBTrack(ls, ls2, pushed, path) ==
    /\ IF path = "written"
       THEN /\ fbAdded' = Min(AddedCap, (IF ls = Null THEN 0 ELSE fbAdded) + 1)
            /\ fbEvictedMax' =
                  Max(IF ls = Null THEN -1 ELSE fbEvictedMax,
                      SetMax(DroppedTs(Append(HistoryOf(ls), pushed), HistoryOf(ls2)), -1))
       ELSE IF HistoryOf(ls2) = <<>>
       THEN fbAdded' = 0 /\ fbEvictedMax' = -1
       ELSE UNCHANGED <<fbAdded, fbEvictedMax>>
    /\ fbImported' = IF path = "imported" THEN TRUE
                     ELSE IF path \in {"written", "retried"} \/ HistoryOf(ls2) = <<>> THEN FALSE
                     ELSE fbImported
    /\ fbMixed' = IF HistoryOf(ls2) = <<>> \/ (path = "written" /\ ls = Null) THEN FALSE
                  ELSE fbMixed
    /\ fbCleared' = IF path = "removed" THEN TRUE
                    ELSE IF path \in {"written", "retried", "imported"} THEN FALSE
                    ELSE fbCleared

\* the environment's part in one saveState call: is the API there, what
\* does each setItem do, does the clock tick before the retry
SaveOutcomes(state) ==
    { o \in [avail : BOOLEAN, w1 : {"ok", "quota", "error"}, wc : {"ok", "fail"},
             w2 : {"ok", "fail"}, d2 : {0, 1}] :
        /\ (~o.avail \/ state = NoState => o.w1 = "ok")
        /\ (state = NoState => o.avail)
        /\ (o.w1 # "quota" => o.wc = "ok" /\ o.w2 = "ok" /\ o.d2 = 0)
        /\ (o.w2 = "fail" => o.d2 = 0) }

FBSaveState(state, max) ==
    \E o \in SaveOutcomes(state) :
        LET t1 == now + 1
            t2 == Min(max, t1 + o.d2)
            r  == FB_saveState(localStorage, o.avail, state, t1, t2, o.w1, o.wc, o.w2)
        IN  /\ now < max
            /\ localStorage' = r.ls
            /\ now' = IF r.path \in {"retried", "retryFailed"} THEN t2
                      ELSE IF r.path = "skipped" THEN now ELSE t1
            /\ fbLast' = [op |-> "save", state |-> state, ret |-> r.ret, path |-> r.path,
                          io |-> r.io, api |-> o.avail]
            /\ FBTrack(localStorage, r.ls, Entry(state, t1), r.path)
            /\ UNCHANGED <<backup, smVars, iosVars, timerVars, cbVars>>

FBLoadState ==
    \E avail \in BOOLEAN :
        /\ fbLast' = [op |-> "load", state |-> FB_loadState(localStorage, avail),
                      ret |-> "state", path |-> "read", io |-> NoIO, api |-> avail]
        /\ UNCHANGED <<localStorage, now, fbAdded, fbEvictedMax, fbImported, fbMixed,
                       fbCleared, backup, smVars, iosVars, timerVars, cbVars>>

\* getAllStates(), called from outside
FBGetAllStates ==
    \E avail \in BOOLEAN :
        /\ fbLast' = [op |-> "getAll", state |-> NoState,
                      ret |-> IF getAllStates(localStorage, avail) = <<>> THEN "empty"
                              ELSE "list",
                      path |-> "read", io |-> NoIO, api |-> avail]
        /\ UNCHANGED <<localStorage, now, fbAdded, fbEvictedMax, fbImported, fbMixed,
                       fbCleared, backup, smVars, iosVars, timerVars, cbVars>>

FBClearState ==
    \E avail \in BOOLEAN :
        LET ls2 == FB_clearState(localStorage, avail)
        IN  /\ localStorage' = ls2
            /\ fbLast' = [op |-> "clear", state |-> NoState, ret |-> "undefined",
                          path |-> IF avail THEN "removed" ELSE "skipped", io |-> NoIO,
                          api |-> avail]
            /\ FBTrack(localStorage, ls2, Null, IF avail THEN "removed" ELSE "skipped")
            /\ UNCHANGED <<now, backup, smVars, iosVars, timerVars, cbVars>>

\* track: the record of the call keeps whether the API worked
FBClearOldStates(track) ==
    \E avail \in BOOLEAN, wc \in {"ok", "fail"} :
        LET ls2 == clearOldStates(localStorage, avail, wc)
        IN  /\ localStorage' = ls2
            /\ fbLast' = [op |-> "clearOld", state |-> NoState, ret |-> "undefined",
                          path |-> "clearOld", io |-> NoIO, api |-> avail \/ ~track]
            /\ FBTrack(localStorage, ls2, Null, "clearOld")
            /\ UNCHANGED <<now, backup, smVars, iosVars, timerVars, cbVars>>

\* the environment's part in one importData call
ImportOutcomes(p) ==
    { o \in [avail : BOOLEAN, w : {"ok", "fail"}] :
        (~o.avail \/ p = Null) => (o.w = "ok" /\ (p = Null => o.avail)) }

\* importData(p), recorded as op
FBImport(p, op, track) ==
    \E o \in ImportOutcomes(p) :
        LET r == importData(localStorage, o.avail, p, o.w)
        IN  /\ localStorage' = r.ls
            /\ fbLast' = [op |-> op, state |-> NoState, ret |-> r.ret,
                          path |-> "import", io |-> NoIO, api |-> o.avail \/ ~track]
            /\ IF r.ret = "true"
               THEN /\ fbAdded' = Min(AddedCap, Len(HistoryOf(r.ls)))
                    /\ fbEvictedMax' = -1
                    /\ fbImported' = TRUE
                    /\ fbMixed' = (HistoryOf(r.ls) # <<>>)
                    /\ fbCleared' = FALSE
               ELSE UNCHANGED <<fbAdded, fbEvictedMax, fbImported, fbMixed, fbCleared>>

\* importData with a payload of the user's
FBImportData(track) ==
    /\ \E p \in ImportPayloads : FBImport(p, "import", track)
    /\ UNCHANGED <<now, backup, smVars, iosVars, timerVars, cbVars>>

\* importData(backup): the payload is what exportData() returned earlier
FBRestoreBackup ==
    /\ backup # Null
    /\ FBImport(backup.data, "restore", TRUE)
    /\ UNCHANGED <<now, backup, smVars, iosVars, timerVars, cbVars>>

\* the environment's part in exportData: the probe inside getAllStates, and
\* exportData's own getItem (a store that is full fails the probe and can
\* still be read)
ExportOutcomes == { o \in [avail : BOOLEAN, readable : BOOLEAN] : o.avail => o.readable }

\* exportData(); of: the unit stored when it was called
FBExportData ==
    \E o \in ExportOutcomes :
        /\ backup' = [data |-> exportData(localStorage, o.avail, o.readable, now),
                      of |-> localStorage, avail |-> o.avail]
        /\ fbLast' = [op |-> "export", state |-> NoState, ret |-> "data",
                      path |-> "export", io |-> NoIO, api |-> o.avail]
        /\ UNCHANGED <<localStorage, now, fbAdded, fbEvictedMax, fbImported, fbMixed,
                       fbCleared, smVars, iosVars, timerVars, cbVars>>

\* the store's six guarded calls, with the API failing and working in turn
OutageNext ==
    \/ \E s \in States \cup {NoState} : FBSaveState(s, MaxClock)
    \/ FBLoadState
    \/ FBGetAllStates
    \/ FBClearState
    \/ FBClearOldStates(TRUE)
    \/ FBImportData(TRUE)

\* backup and restore: the store with exportData and importData of what was
\* exported
BackupNext ==
    \/ \E s \in States : FBSaveState(s, MaxClock)
    \/ FBClearState
    \/ FBImportData(TRUE)
    \/ FBExportData
    \/ FBRestoreBackup

FBNext ==
    \/ \E s \in States \cup {NoState} : FBSaveState(s, MaxTime)
    \/ FBLoadState
    \/ FBClearState
    \/ FBClearOldStates(FALSE)
    \/ FBImportData(FALSE)

(* ------------------------ TI89StateManager ----------------------------- *)
ExpectedOrigin == "https://ti89-simulator.com"
Origins == {ExpectedOrigin, "https://elsewhere.example"}

NoHash == <<>>
Rejected == -1

\* JSON.stringify(state): equal contents give equal strings
JSONstringify(state) == <<"json", state>>

hashStringWeak(str) == <<"sha256", <<"json", 1>>>>

\* hex SHA-256 digest of the string (collisions are not modelled)
hashString(str) == <<"sha256", str>>

\* { key: this.stateKey, state, timestamp: Date.now(), hash: stateHash }
StateData(state, t, h) ==
    [key |-> "ti89_session", state |-> state, timestamp |-> t, hash |-> h]

\* event.data of an inbound window message (Null: no data)
MessageData ==
    {Null} \cup [type : {"TI89_STATE", "OTHER"}, state : States \cup {NoState}]

MessageAcceptedAnyOrigin(origin, data) ==
    data # Null /\ data.type = "TI89_STATE"

\* the listener's two tests before it calls saveState(event.data.state)
MessageAccepted(origin, data) ==
    /\ origin = ExpectedOrigin
    /\ data # Null /\ data.type = "TI89_STATE"

SameDigestNever(last, h) == FALSE

RememberedDigestNever(success, stateHash, last) == last

\* if (success) { this.lastStateHash = stateHash; ... }
RememberedDigest(success, stateHash, last) == IF success THEN stateHash ELSE last

\* if (this.lastStateHash === stateHash) return;
SameDigest(last, h) == last = h

TryPrimaryIgnoresFlag(useIdb, isDb) == isDb

\* if (this.useIndexedDB && this.db): the test every operation makes before it
\* goes to IndexedDB
TryPrimary(useIdb, isDb) == useIdb /\ isDb

\* `success = this.fallbackStorage.saveState(state)`: the callee is an async
\* function, so success holds a Promise, which is truthy whatever it settles to
FallbackSuccess(ret) == TRUE

\* saveState calls suspended at the await, kept ordered by content (the order
\* in which the digests resolve is free); seen: another call has completed
\* while this one was suspended
RECURSIVE InsertPending(_, _)
InsertPending(q, e) ==
    IF q = <<>> THEN <<e>>
    ELSE IF Head(q).state <= e.state THEN <<Head(q)>> \o InsertPending(Tail(q), e)
    ELSE <<e>> \o q

RECURSIVE AddCalls(_, _, _)
AddCalls(q, e, n) == IF n = 0 THEN q ELSE AddCalls(InsertPending(q, e), e, n - 1)

RemoveAt(q, i) == SubSeq(q, 1, i - 1) \o SubSeq(q, i + 1, Len(q))

\* the calls still suspended when another call completes have overlapped it
\* (noted where track is set)
MarkSeen(q, track) == [i \in 1..Len(q) |-> [q[i] EXCEPT !.seen = @ \/ track]]

\* saveState(state) up to `await this.hashString(stateString)`, called n times
SM_saveStateCall(q, state, n) ==
    IF state = NoState THEN q
    ELSE AddCalls(q, [state |-> state, hash |-> hashString(JSONstringify(state)),
                      seen |-> FALSE], n)

\* outcomes of the IndexedDB calls: a put or delete either commits, throws
\* synchronously (transaction() or the request), or is queued and aborted
\* later; a get either succeeds, throws in transaction(), or fires onerror
PutOutcomes == {"ok", "throw", "abort"}
GetOutcomes == {"ok", "throw", "error"}

\* loadState(): what the returned promise settles to (Rejected: it rejects,
\* because the promise built in the IndexedDB branch is returned without
\* await, so neither catch sees its rejection), the digest onsuccess stores,
\* and whether the result waits for onsuccess
SM_loadState(isDb, useIdb, hasFallback, rec, ls, g, avail) ==
    IF TryPrimary(useIdb, isDb)
    THEN IF g # "ok" THEN [ret |-> Rejected, hash |-> NoHash, async |-> FALSE]
         ELSE IF rec # Null /\ rec.state # NoState
         THEN [ret |-> rec.state, hash |-> rec.hash, async |-> TRUE]
         ELSE [ret |-> NoState, hash |-> NoHash, async |-> FALSE]
    ELSE IF hasFallback
    THEN [ret |-> FB_loadState(ls, avail), hash |-> NoHash, async |-> FALSE]
    ELSE [ret |-> NoState, hash |-> NoHash, async |-> FALSE]

\* records of what has happened, for the properties below
Other == [op |-> "other"]
Completed(state, wrote, shown, overlap, last) ==
    [state |-> state, wrote |-> wrote, shown |-> shown, overlap |-> overlap,
     after |-> IF last = Null THEN "none"
               ELSE IF last.wrote \in {"idb", "ls"}
               THEN (IF last.state = state THEN "sameCommitted" ELSE "diffCommitted")
               ELSE IF last.wrote = "thrown" /\ last.state = state THEN "sameThrown"
               ELSE IF last.wrote = "cleared" /\ last.state = state THEN "sameCleared"
               ELSE "none"]

\* the note left by a clearState() that removed the record (where track is
\* set): the snapshot the last completed save had stored or found stored
Cleared(last, removed, track) ==
    IF track /\ removed /\ last # Null /\ last.wrote \in {"idb", "ls", "dedup"}
    THEN [state |-> last.state, wrote |-> "cleared", shown |-> FALSE,
          overlap |-> FALSE, after |-> "none"]
    ELSE Null

SMInit ==
    /\ db = FALSE
    /\ useIndexedDB = TRUE
    /\ fallbackStorage = FALSE
    /\ initPending = TRUE
    /\ lastStateHash = NoHash
    /\ listeners = 0
    /\ idb = Null
    /\ pendingSaves = <<>>
    /\ pendingLoad = <<>>
    /\ smLastSave = Null
    /\ smCleared = FALSE
    /\ smEvent = Other

\* a new page load: the constructor runs again, the stores keep their content
PageReload ==
    /\ db' = FALSE
    /\ useIndexedDB' = TRUE
    /\ fallbackStorage' = FALSE
    /\ initPending' = TRUE
    /\ lastStateHash' = NoHash
    /\ listeners' = 0
    /\ pendingSaves' = <<>>
    /\ pendingLoad' = <<>>
    /\ smLastSave' = Null
    /\ smCleared' = FALSE
    /\ smEvent' = Other
    /\ autoSaveInterval' = FALSE
    /\ intervals' = [intervals EXCEPT !["smAutoSave"] = 0]
    /\ requestsInFlight' = 0
    /\ UNCHANGED <<fbGhost, iosVars, cbVars, idb, localStorage, now>>

\* initStorage() settles: initDB() resolved (ok) or rejected
InitStorageDone ==
    /\ initPending
    /\ initPending' = FALSE
    /\ \E ok \in BOOLEAN :
          IF ok
          THEN db' = TRUE /\ useIndexedDB' = TRUE /\ UNCHANGED fallbackStorage
          ELSE useIndexedDB' = FALSE /\ fallbackStorage' = TRUE /\ UNCHANGED db
    /\ smEvent' = Other
    /\ UNCHANGED <<fbGhost, iosVars, timerVars, cbVars, lastStateHash, listeners, pendingSaves, pendingLoad, idb,
                   localStorage, now, smLastSave, smCleared>>

SetIframe(maxListeners) ==
    /\ listeners < maxListeners
    /\ listeners' = listeners + 1
    /\ smEvent' = Other
    /\ UNCHANGED <<fbGhost, iosVars, timerVars, cbVars, db, useIndexedDB, fallbackStorage, initPending, lastStateHash,
                   pendingSaves, pendingLoad, idb, localStorage, now,
                   smLastSave, smCleared>>

\* the claim's own reading of a well-formed message, for the record of the step
WellFormedMessage(origin, data) ==
    origin = ExpectedOrigin /\ data # Null /\ data.type = "TI89_STATE"
        /\ data.state # NoState

\* a window 'message' event reaches every registered listener
Message(maxPending) ==
    \E origin \in Origins, data \in MessageData :
        /\ listeners >= 1
        /\ Len(pendingSaves) + listeners <= maxPending
        /\ pendingSaves' = IF MessageAccepted(origin, data)
                           THEN SM_saveStateCall(pendingSaves, data.state, listeners)
                           ELSE pendingSaves
        /\ smEvent' = IF WellFormedMessage(origin, data) THEN Other
                      ELSE [op |-> "malformed"]
        /\ UNCHANGED <<fbGhost, iosVars, timerVars, cbVars, db, useIndexedDB, fallbackStorage, initPending, lastStateHash,
                       listeners, pendingLoad, idb, localStorage, now,
                       smLastSave, smCleared>>

\* a direct call of the public method saveState(state)
SaveStateCall(maxPending) ==
    \E state \in States \cup {NoState} :
        /\ Len(pendingSaves) < maxPending
        /\ pendingSaves' = SM_saveStateCall(pendingSaves, state, 1)
        /\ smEvent' = Other
        /\ UNCHANGED <<fbGhost, iosVars, timerVars, cbVars, db, useIndexedDB, fallbackStorage, initPending, lastStateHash,
                       listeners, pendingLoad, idb, localStorage, now,
                       smLastSave, smCleared>>

\* the environment's part in the rest of saveState
ResumeOutcomes(tryPrimary, hasFallback, state) ==
    { o \in [put : PutOutcomes, fb : SaveOutcomes(state)] :
        /\ (~tryPrimary => o.put = "ok")
        /\ (~(hasFallback /\ (~tryPrimary \/ o.put = "throw"))
              => o.fb = [avail |-> TRUE, w1 |-> "ok", wc |-> "ok", w2 |-> "ok", d2 |-> 0]) }

\* saveState after the await: the digest test, the tier writes, the digest update
SaveStateResume(maxClock, track) ==
    \E i \in 1..Len(pendingSaves) :
        LET c == pendingSaves[i]
            tryPrimary == TryPrimary(useIndexedDB, db)
        IN  /\ pendingSaves' = MarkSeen(RemoveAt(pendingSaves, i), track)
            /\ IF SameDigest(lastStateHash, c.hash)
               THEN /\ smEvent' = Other
                    /\ smLastSave' = Completed(c.state, "dedup", FALSE, c.seen, smLastSave)
                    /\ UNCHANGED <<fbGhost, iosVars, timerVars, cbVars, db, useIndexedDB, fallbackStorage, initPending,
                                   lastStateHash, listeners, pendingLoad, idb,
                                   localStorage, now, smCleared>>
               ELSE \E o \in ResumeOutcomes(tryPrimary, fallbackStorage, c.state) :
                    LET t1 == now + 1
                        t2 == Min(maxClock, t1 + o.fb.d2)
                        primaryOk == tryPrimary /\ o.put # "throw"
                        tryFallback == ~primaryOk /\ fallbackStorage
                        fb == FB_saveState(localStorage, o.fb.avail, c.state, t1, t2,
                                           o.fb.w1, o.fb.wc, o.fb.w2)
                        success == IF primaryOk THEN TRUE
                                   ELSE IF tryFallback THEN FallbackSuccess(fb.ret)
                                   ELSE FALSE
                        wrote == IF primaryOk THEN (IF o.put = "ok" THEN "idb" ELSE "failed")
                                 ELSE IF tryFallback
                                 THEN (IF fb.ret = "true" THEN "ls" ELSE "failed")
                                 ELSE IF tryPrimary THEN "thrown"
                                 ELSE "noTier"
                    IN  /\ (tryPrimary \/ tryFallback) => now < maxClock
                        /\ idb' = IF primaryOk /\ o.put = "ok"
                                  THEN StateData(c.state, t1, c.hash) ELSE idb
                        /\ useIndexedDB' = IF tryPrimary /\ o.put = "throw"
                                           THEN FALSE ELSE useIndexedDB
                        /\ localStorage' = IF tryFallback THEN fb.ls ELSE localStorage
                        /\ now' = IF primaryOk THEN t1
                                  ELSE IF tryFallback /\ fb.path \in {"retried", "retryFailed"}
                                  THEN t2
                                  ELSE IF tryFallback /\ fb.path # "skipped" THEN t1
                                  ELSE now
                        /\ lastStateHash' = RememberedDigest(success, c.hash, lastStateHash)
                        /\ smEvent' = Other
                        /\ smLastSave' = Completed(c.state, wrote, success, c.seen, smLastSave)
                        /\ smCleared' = IF wrote \in {"idb", "ls"} THEN FALSE ELSE smCleared
                        /\ UNCHANGED <<fbGhost, iosVars, timerVars, cbVars, db, fallbackStorage, initPending, listeners,
                                       pendingLoad>>

\* loadState() up to the point where it settles or waits for onsuccess
LoadStateCall ==
    \E g \in GetOutcomes, avail \in BOOLEAN :
        LET r == SM_loadState(db, useIndexedDB, fallbackStorage, idb, localStorage,
                              g, avail)
        IN  /\ pendingLoad = <<>>
            /\ (~TryPrimary(useIndexedDB, db) => g = "ok")
            /\ (~(fallbackStorage /\ ~TryPrimary(useIndexedDB, db)) => avail)
            /\ IF r.async
               THEN /\ pendingLoad' = <<[ret |-> r.ret, hash |-> r.hash]>>
                    /\ smEvent' = Other
               ELSE /\ pendingLoad' = pendingLoad
                    /\ smEvent' = [op |-> "load", ret |-> r.ret]
            /\ UNCHANGED <<fbGhost, iosVars, timerVars, cbVars, db, useIndexedDB, fallbackStorage, initPending, lastStateHash,
                           listeners, pendingSaves, idb, localStorage, now,
                           smLastSave, smCleared>>

\* request.onsuccess with a record: the digest is remembered, the promise resolves
LoadStateDone ==
    /\ pendingLoad # <<>>
    /\ pendingLoad' = <<>>
    /\ lastStateHash' = pendingLoad[1].hash
    /\ smEvent' = Other
    /\ smLastSave' = Null
    /\ UNCHANGED <<fbGhost, iosVars, timerVars, cbVars, db, useIndexedDB, fallbackStorage, initPending, listeners,
                   pendingSaves, idb, localStorage, now, smCleared>>

\* the environment's part in clearState (del: the IndexedDB delete)
ClearOutcomes(tryPrimary, hasFallback) ==
    { o \in [del : PutOutcomes, avail : BOOLEAN] :
        (~tryPrimary => o.del = "ok") /\ (~hasFallback => o.avail) }

\* `if (cleared) this.lastStateHash = null`
ClearedDigestKept(cleared, last) == last

ClearedDigest(cleared, last) == IF cleared THEN NoHash ELSE last

ClearState(track) ==
    \E o \in ClearOutcomes(TryPrimary(useIndexedDB, db), fallbackStorage) :
        LET tryPrimary == TryPrimary(useIndexedDB, db)
            primaryCleared == tryPrimary /\ o.del # "throw"
            cleared == primaryCleared \/ fallbackStorage
            removed == (tryPrimary /\ o.del = "ok") \/ (fallbackStorage /\ o.avail)
        IN  /\ idb' = IF tryPrimary /\ o.del = "ok" THEN Null ELSE idb
            /\ localStorage' = IF fallbackStorage
                               THEN FB_clearState(localStorage, o.avail) ELSE localStorage
            /\ lastStateHash' = ClearedDigest(cleared, lastStateHash)
            /\ smCleared' = IF removed THEN TRUE ELSE smCleared
            /\ smEvent' = Other
            /\ smLastSave' = Cleared(smLastSave, removed, track)
            /\ UNCHANGED <<fbGhost, iosVars, timerVars, cbVars, db, useIndexedDB, fallbackStorage, initPending, listeners,
                           pendingSaves, pendingLoad, now>>

Next ==
    \/ PageReload
    \/ InitStorageDone
    \/ SetIframe(MaxListeners)
    \/ Message(MaxPending)
    \/ SaveStateCall(MaxPending)
    \/ SaveStateResume(MaxClock, FALSE)
    \/ LoadStateCall
    \/ LoadStateDone
    \/ ClearState(FALSE)

(* ----------------- TI89StateManager: auto-save timer -------------------- *)
TimersInit ==
    /\ intervals = NoTimers
    /\ autoSaveInterval = FALSE
    /\ requestsInFlight = 0

\* startAutoSave(intervalMs): stopAutoSave(), then a new timer
SM_startAutoSave(handle, tm) == StartTimer(handle, tm, "smAutoSave")
\* stopAutoSave()
SM_stopAutoSave(handle, tm) == StopTimer(handle, tm, "smAutoSave")

smOthers == <<fbVars, smMem, idb, smLastSave, smCleared, iosVars, cbVars>>

StartAutoSave(record) ==
    LET r == SM_startAutoSave(autoSaveInterval, intervals)
    IN  /\ intervals["smAutoSave"] <= MaxPending
        /\ autoSaveInterval' = r.handle
        /\ intervals' = r.tm
        /\ smEvent' = [op |-> TimerCall(record, TRUE, autoSaveInterval, "other")]
        /\ UNCHANGED <<requestsInFlight, smOthers>>

StopAutoSave(record) ==
    LET r == SM_stopAutoSave(autoSaveInterval, intervals)
    IN  /\ autoSaveInterval' = r.handle
        /\ intervals' = r.tm
        /\ smEvent' = [op |-> TimerCall(record, FALSE, autoSaveInterval, "other")]
        /\ UNCHANGED <<requestsInFlight, smOthers>>

\* requestStateFromCalculator(), from the auto-save timer or called directly:
\* REQUEST_STATE is posted when a frame is registered
RequestStateFromCalculator(maxPending) ==
    \E fromTimer \in BOOLEAN :
        /\ fromTimer => intervals["smAutoSave"] > 0
        /\ requestsInFlight < maxPending
        /\ requestsInFlight' = IF listeners >= 1 THEN requestsInFlight + 1
                               ELSE requestsInFlight
        /\ smEvent' = Other
        /\ UNCHANGED <<intervals, autoSaveInterval, smOthers>>

(* ------------------ calculator-bridge (Capture Bridge) ------------------ *)
\* the state object captureCalculatorState builds; c stands for url,
\* canvasData, inputs, localStorage and sessionStorage together
Snapshot(t, c) == [timestamp |-> t, content |-> c]

\* the record of a step: the event handled ("" for timers and the rest), the
\* runs of captureCalculatorState() it made, the messages these posted
NoCapture == [op |-> "", captures |-> 0, posted |-> 0]

\* captureCalculatorState(): lastScreenCapture after the call and the messages
\* posted to the parent (fails: building or serializing the state throws, which
\* the function catches)
captureCalculatorState(last, inFrame, t, c, fails) ==
    LET state == Snapshot(t, c)
        stateString == JSONstringify(state)
    IN  IF fails THEN [last |-> last, posted |-> <<>>]
        ELSE IF stateString # last
        THEN [last |-> stateString,
              posted |-> IF inFrame THEN <<[type |-> "TI89_STATE", state |-> state]>>
                         ELSE <<>>]
        ELSE [last |-> last, posted |-> <<>>]

\* startStateCapture(intervalMs)
startStateCapture(handle, tm) == StartTimer(handle, tm, "capture")
\* stopStateCapture()
stopStateCapture(handle, tm) == StopTimer(handle, tm, "capture")

RequestAcceptedAlways(pending) == TRUE

\* case 'REQUEST_STATE': if (!stateRequestPending)
RequestAccepted(pending) == ~pending

VisibilityCapturesAlways(hidden) == 1

\* the visibilitychange listener: captureCalculatorState() if (document.hidden)
VisibilityCaptures(hidden) == IF hidden THEN 1 ELSE 0

\* what the frame can receive as event.data (Null: no data)
BridgeMessages ==
    {Null} \cup [type : {"", "REQUEST_STATE", "START_AUTO_CAPTURE", "STOP_AUTO_CAPTURE",
                         "OTHER"}]
           \cup [type : {"RESTORE_STATE"}, state : States \cup {NoState}]

CBInit ==
    /\ lastScreenCapture = Null
    /\ captureInterval = FALSE
    /\ stateRequestPending = FALSE
    /\ requestTimers = 0
    /\ startTimer = TRUE
    /\ initialTimers = 0
    /\ cbContent = 1
    /\ cbHidden = FALSE
    /\ cbInFrame = TRUE
    /\ cbEvent = NoCapture

cbOthers == <<localStorage, fbGhost, smVars, iosVars, autoSaveInterval>>

\* n runs of captureCalculatorState() within one handler
CbCapture(n, op) ==
    \E fails \in BOOLEAN :
        LET r == captureCalculatorState(lastScreenCapture, cbInFrame, now, cbContent,
                                        fails)
        IN  /\ (n = 0 => ~fails)
            /\ lastScreenCapture' = IF n = 0 THEN lastScreenCapture ELSE r.last
            /\ cbEvent' = [op |-> op, captures |-> n,
                           posted |-> IF n = 0 THEN 0 ELSE Len(r.posted)]

\* the frame loads a page: the script runs from its first line
BridgeLoad ==
    /\ lastScreenCapture' = Null
    /\ captureInterval' = FALSE
    /\ stateRequestPending' = FALSE
    /\ requestTimers' = 0
    /\ startTimer' = TRUE
    /\ initialTimers' = 0
    /\ intervals' = [intervals EXCEPT !["capture"] = 0]
    /\ cbContent' \in States
    /\ cbHidden' = FALSE
    /\ cbInFrame' \in BOOLEAN
    /\ cbEvent' = NoCapture
    /\ UNCHANGED <<now, requestsInFlight, cbOthers>>

\* the 1000 ms timeout set at load: startStateCapture(10000) and a 2000 ms
\* timeout for the first capture
StartTimerFire(record) ==
    LET r == startStateCapture(captureInterval, intervals)
    IN  /\ startTimer
        /\ startTimer' = FALSE
        /\ captureInterval' = r.handle
        /\ intervals' = r.tm
        /\ initialTimers' = initialTimers + 1
        /\ cbEvent' = [NoCapture EXCEPT !.op = TimerCall(record, TRUE, captureInterval, "")]
        /\ UNCHANGED <<lastScreenCapture, stateRequestPending, requestTimers, cbPage,
                       now, requestsInFlight, cbOthers>>

InitialCaptureFire ==
    /\ initialTimers > 0
    /\ initialTimers' = initialTimers - 1
    /\ CbCapture(1, "")
    /\ UNCHANGED <<captureInterval, stateRequestPending, requestTimers, startTimer,
                   cbPage, now, intervals, requestsInFlight, cbOthers>>

\* the repeating timer started by startStateCapture
CaptureTick ==
    /\ intervals["capture"] > 0
    /\ CbCapture(1, "")
    /\ UNCHANGED <<captureInterval, stateRequestPending, requestTimers, startTimer,
                   initialTimers, cbPage, now, intervals, requestsInFlight, cbOthers>>

\* handleParentMessage, case 'REQUEST_STATE' (fromHost: the message is one the
\* State Manager posted)
RequestState(maxPending) ==
    \E fromHost \in BOOLEAN :
        /\ fromHost => requestsInFlight > 0
        /\ requestsInFlight' = IF fromHost THEN requestsInFlight - 1 ELSE requestsInFlight
        /\ requestTimers <= maxPending
        /\ IF RequestAccepted(stateRequestPending)
           THEN stateRequestPending' = TRUE /\ requestTimers' = requestTimers + 1
           ELSE UNCHANGED <<stateRequestPending, requestTimers>>
        /\ cbEvent' = [NoCapture EXCEPT !.op = IF stateRequestPending THEN "ignored"
                                               ELSE "scheduled"]
        /\ UNCHANGED <<lastScreenCapture, captureInterval, startTimer, initialTimers,
                       cbPage, now, intervals, cbOthers>>

\* the 100 ms timeout: captureCalculatorState(); stateRequestPending = false
RequestTimerFire ==
    /\ requestTimers > 0
    /\ requestTimers' = requestTimers - 1
    /\ stateRequestPending' = FALSE
    /\ CbCapture(1, "")
    /\ UNCHANGED <<captureInterval, startTimer, initialTimers, cbPage, now, intervals,
                   requestsInFlight, cbOthers>>

\* handleParentMessage for every other message
ParentMessage(record) ==
    \E data \in BridgeMessages :
        LET type == IF data = Null THEN "" ELSE data.type
            r == IF type = "START_AUTO_CAPTURE"
                 THEN startStateCapture(captureInterval, intervals)
                 ELSE IF type = "STOP_AUTO_CAPTURE"
                 THEN stopStateCapture(captureInterval, intervals)
                 ELSE [handle |-> captureInterval, tm |-> intervals]
        IN  /\ type # "REQUEST_STATE"
            /\ type = "START_AUTO_CAPTURE" => intervals["capture"] <= MaxPending
            /\ captureInterval' = r.handle
            /\ intervals' = r.tm
            /\ cbContent' = IF type = "RESTORE_STATE" /\ data.state # NoState
                            THEN data.state ELSE cbContent
            /\ cbEvent' = IF type \in {"START_AUTO_CAPTURE", "STOP_AUTO_CAPTURE"}
                          THEN [NoCapture EXCEPT
                                  !.op = TimerCall(record, type = "START_AUTO_CAPTURE",
                                                   captureInterval, "")]
                          ELSE NoCapture
            /\ UNCHANGED <<lastScreenCapture, stateRequestPending, requestTimers,
                           startTimer, initialTimers, cbHidden, cbInFrame, now,
                           requestsInFlight, cbOthers>>

\* the beforeunload and pagehide listeners
ForcedCapture ==
    /\ CbCapture(1, "unload")
    /\ UNCHANGED <<captureInterval, stateRequestPending, requestTimers, startTimer,
                   initialTimers, cbPage, now, intervals, requestsInFlight, cbOthers>>

\* the visibilitychange listener
VisibilityChange ==
    /\ cbHidden' = ~cbHidden
    /\ CbCapture(VisibilityCaptures(cbHidden'), IF cbHidden' THEN "hidden" ELSE "visible")
    /\ UNCHANGED <<captureInterval, stateRequestPending, requestTimers, startTimer,
                   initialTimers, cbContent, cbInFrame, now, intervals,
                   requestsInFlight, cbOthers>>

\* the embedded application changes what it shows
ContentChange ==
    /\ cbContent' \in States \ {cbContent}
    /\ cbEvent' = NoCapture
    /\ UNCHANGED <<cbMem, cbHidden, cbInFrame, now, intervals, requestsInFlight,
                   cbOthers>>

\* time passes in the frame
BridgeClock(maxClock) ==
    /\ now < maxClock
    /\ now' = now + 1
    /\ cbEvent' = NoCapture
    /\ UNCHANGED <<cbMem, cbPage, intervals, requestsInFlight, cbOthers>>

\* the sub-steps of restoreCalculatorState, in the order it runs them
SubSteps == <<"canvasData", "inputs", "localStorage", "sessionStorage">>

\* restoreLocalStorage and restoreSessionStorage wrap their loop in try/catch;
\* restoreCanvasData and restoreInputs do not
OwnCatch == {"localStorage", "sessionStorage"}

\* restoreCalculatorState(state).  present: the parts the state carries,
\* fails: the sub-steps that throw when run.  A throw that the sub-step does
\* not catch itself ends the try block of restoreCalculatorState; its catch
\* logs it.  attempted: the sub-steps that were run
restoreCalculatorState(present, fails) ==
    LET aborts == { i \in 1..Len(SubSteps) :
                      SubSteps[i] \in (present \cap fails) \ OwnCatch }
        last == IF aborts = {} THEN Len(SubSteps)
                ELSE CHOOSE i \in aborts : \A j \in aborts : i <= j
    IN  [attempted |-> { SubSteps[i] : i \in { j \in 1..last : SubSteps[j] \in present } },
         caught |-> IF aborts # {} THEN "outer"
                    ELSE IF present \cap fails # {} THEN "inner"
                    ELSE "none"]

\* handleParentMessage, case 'RESTORE_STATE' with a state, sub-step by sub-step
CbRestore ==
    \E s \in States, present \in SUBSET OwnCatch \cup {{"canvasData", "inputs"} \cup OwnCatch,
                                                        {"canvasData", "localStorage"},
                                                        {"inputs", "sessionStorage"}} :
    \E fails \in SUBSET present :
        LET r == restoreCalculatorState(present, fails)
        IN  /\ cbContent' = IF r.attempted \ fails # {} THEN s ELSE cbContent
            /\ cbEvent' = [op |-> "restore", captures |-> 0, posted |-> 0,
                           present |-> present, fails |-> fails,
                           attempted |-> r.attempted, caught |-> r.caught]
            /\ UNCHANGED <<cbMem, cbHidden, cbInFrame, now, intervals,
                           requestsInFlight, cbOthers>>

\* the bridge restoring states it is sent, between captures
RestoreNext ==
    \/ BridgeLoad
    \/ StartTimerFire(FALSE)
    \/ CaptureTick
    \/ CbRestore
    \/ ContentChange
    \/ BridgeClock(MaxClock)

BridgeNext ==
    \/ BridgeLoad
    \/ StartTimerFire(FALSE)
    \/ InitialCaptureFire
    \/ CaptureTick
    \/ RequestState(MaxPending)
    \/ RequestTimerFire
    \/ ParentMessage(FALSE)
    \/ ForcedCapture
    \/ VisibilityChange
    \/ ContentChange
    \/ BridgeClock(MaxClock)
    \/ SetIframe(MaxListeners)
    \/ StartAutoSave(FALSE)
    \/ StopAutoSave(FALSE)
    \/ RequestStateFromCalculator(MaxPending)

(* -------------------------- iOSStateManager ----------------------------- *)
Blank == "about:blank"
Pages == {"https://x/y", "https://x/z"}

\* the state object captureIframeState builds
CaptureState(url, t) ==
    [url |-> url, timestamp |-> t, userAgent |-> "UA", viewport |-> "WxH"]

\* the state object saveBasicState builds
BasicState(sid, t, url) ==
    [sessionId |-> sid, lastActive |-> t, url |-> url, userAgent |-> "UA"]

\* { state, timestamp: Date.now(), version: '1.1' }
IosStateData(state, t) == [state |-> state, timestamp |-> t, version |-> "1.1"]

\* the manager's fields and the two stored keys, as the methods below pass them on
IosM == [lastUrl |-> lastUrl, iosState |-> iosState, iosUrl |-> iosUrl,
         lastSaveTime |-> lastSaveTime, sessionId |-> sessionId]

\* outcomes of the two setItem calls of one saveState: both go through, the
\* first throws, or the second throws
IosWrites == {"ok", "fail1", "fail2"}

\* saveState(state): m after the call
IOS_saveState(m, avail, state, t, w) ==
    IF ~avail \/ state = Null THEN m
    ELSE IF w = "fail1" THEN m
    ELSE IF w = "fail2" THEN [m EXCEPT !.iosState = IosStateData(state, t)]
    ELSE [m EXCEPT !.iosState = IosStateData(state, t),
                   !.iosUrl = state.url,
                   !.lastSaveTime = t]

ShouldCaptureAlways(currentUrl, last) ==
    currentUrl # "" /\ currentUrl # Blank

\* currentUrl && currentUrl !== this.lastUrl && currentUrl !== 'about:blank'
ShouldCapture(currentUrl, last) ==
    currentUrl # "" /\ currentUrl # last /\ currentUrl # Blank

\* the address captureIframeState reads: contentWindow.location.href, or the
\* src attribute when the read is blocked
CurrentUrl(href, src, blocked) == IF blocked THEN src ELSE href

\* captureIframeState(): m after the call, and the states it handed to saveState
IOS_captureIframeState(m, hasIframe, avail, currentUrl, t, w) ==
    IF ~hasIframe \/ ~avail THEN [m |-> m, fired |-> <<>>]
    ELSE IF ShouldCapture(currentUrl, m.lastUrl)
    THEN [m |-> IOS_saveState([m EXCEPT !.lastUrl = currentUrl], avail,
                              CaptureState(currentUrl, t), t, w),
          fired |-> <<CaptureState(currentUrl, t)>>]
    ELSE [m |-> m, fired |-> <<>>]

IOS_getSessionIdFresh(m, t) == <<"ios", t>>

\* getSessionId(): the stored id, or a new one made from the clock
IOS_getSessionId(m, t) == IF m.sessionId # Null THEN m.sessionId ELSE <<"ios", t>>

\* saveBasicState(): m after the call
IOS_saveBasicState(m, hasIframe, avail, src, t, w) ==
    LET sid == IOS_getSessionId(m, t)
    IN  IOS_saveState([m EXCEPT !.sessionId = sid], avail,
                      BasicState(sid, t, IF hasIframe THEN src ELSE ""), t, w)

\* loadState(): the stored record, a record made from the stored address, or null
IOS_loadState(m, avail, t) ==
    IF ~avail THEN Null
    ELSE IF m.iosState # Null THEN m.iosState
    ELSE IF m.iosUrl # Null /\ m.iosUrl # ""
    THEN [state |-> [url |-> m.iosUrl, timestamp |-> t], timestamp |-> t]
    ELSE Null

\* restoreState(): "throws" when a saved address meets this.iframe = null
IOS_restoreState(m, hasIframe, avail, src, t) ==
    LET savedData == IOS_loadState(m, avail, t)
    IN  IF savedData = Null \/ savedData.state.url = ""
        THEN [ret |-> "false", url |-> ""]
        ELSE IF ~hasIframe THEN [ret |-> "throws", url |-> ""]
        ELSE IF savedData.state.url # src /\ savedData.state.url # Blank
        THEN [ret |-> "true", url |-> savedData.state.url]
        ELSE [ret |-> "false", url |-> ""]

NoPoll == [op |-> "none"]

IOSInit ==
    /\ storageAvailable = TRUE
    /\ iosIframe = FALSE
    /\ iframeSrc = ""
    /\ iframeHref = Blank
    /\ lastUrl = ""
    /\ urlMonitorInterval = FALSE
    /\ iosAutoSaveInterval = FALSE
    /\ lastSaveTime = 0
    /\ iosState = Null
    /\ iosUrl = Null
    /\ sessionId = Null
    /\ restoreTimers = 0
    /\ navTimers = <<>>
    /\ captureTimers = 0
    /\ iosPoll = NoPoll
    /\ iosObserved = ""
    /\ iosClearedSince = FALSE

Init == FBInit /\ SMInit /\ IOSInit /\ TimersInit /\ CBInit

iosOthers == <<localStorage, fbGhost, smVars, autoSaveInterval, requestsInFlight, cbVars>>

\* callbacks waiting on a timer
IosScheduled == restoreTimers + Len(navTimers) + captureTimers

IosAssign(m) ==
    /\ lastUrl' = m.lastUrl
    /\ iosState' = m.iosState
    /\ iosUrl' = m.iosUrl
    /\ lastSaveTime' = m.lastSaveTime
    /\ sessionId' = m.sessionId

\* whether the record of a step names the handler that ran
NoNote == [on |-> FALSE, event |-> ""]
Note(ev) == [on |-> TRUE, event |-> ev]

\* what one captureIframeState run leaves in the record of polls; where
\* note.on, the record also names the handler and what the saveBasicState()
\* after the capture did ("none": the handler makes no such call)
IosObserve(currentUrl, fired, note, basic) ==
    LET observed == IF currentUrl \notin Pages THEN "unsaveable"
                    ELSE IF currentUrl = iosObserved THEN "same"
                    ELSE "changed"
        carried == \A i \in 1..Len(fired) : fired[i].url = currentUrl
    IN  IF iosIframe /\ storageAvailable
        THEN /\ iosPoll' = IF ~note.on
                           THEN [op |-> "poll", observed |-> observed,
                                 cleared |-> iosClearedSince, fired |-> Len(fired),
                                 carried |-> carried]
                           ELSE [op |-> "poll", observed |-> observed,
                                 cleared |-> iosClearedSince, fired |-> Len(fired),
                                 carried |-> carried, event |-> note.event,
                                 basic |-> basic]
             /\ iosObserved' = IF currentUrl \in Pages THEN currentUrl ELSE iosObserved
             /\ iosClearedSince' = IF currentUrl \in Pages THEN FALSE ELSE iosClearedSince
        ELSE /\ iosPoll' = IF ~note.on THEN NoPoll
                           ELSE [op |-> "none", event |-> note.event, basic |-> basic]
             /\ UNCHANGED <<iosObserved, iosClearedSince>>

\* the read of contentWindow.location.href can only be blocked on a loaded page
Reads == { b \in BOOLEAN : b => iframeHref \in Pages }

\* a handler that runs captureIframeState() only
IosCaptureOnly(note) ==
    \E blocked \in Reads, w \in IosWrites :
        LET cur == CurrentUrl(iframeHref, iframeSrc, blocked)
            r == IOS_captureIframeState(IosM, iosIframe, storageAvailable, cur, now, w)
        IN  /\ (r.fired = <<>> => w = "ok")
            /\ IosAssign(r.m)
            /\ IosObserve(cur, r.fired, note, "none")

\* a handler that runs captureIframeState() and then saveBasicState()
IosCaptureAndSave(note) ==
    \E blocked \in Reads, w1 \in IosWrites, w2 \in IosWrites :
        LET cur == CurrentUrl(iframeHref, iframeSrc, blocked)
            r == IOS_captureIframeState(IosM, iosIframe, storageAvailable, cur, now, w1)
            m2 == IOS_saveBasicState(r.m, iosIframe, storageAvailable, iframeSrc, now, w2)
        IN  /\ (r.fired = <<>> => w1 = "ok")
            /\ (~storageAvailable => w2 = "ok")
            /\ IosAssign(m2)
            /\ IosObserve(cur, r.fired, note,
                          IF ~storageAvailable THEN "skipped" ELSE w2)

\* a new page load: the constructor runs, the stored keys stay
IosReload ==
    /\ storageAvailable' \in BOOLEAN
    /\ iosIframe' = FALSE
    /\ iframeSrc' = "" /\ iframeHref' = Blank
    /\ lastUrl' = ""
    /\ urlMonitorInterval' = FALSE
    /\ iosAutoSaveInterval' = FALSE
    /\ lastSaveTime' = 0
    /\ restoreTimers' = 0 /\ navTimers' = <<>> /\ captureTimers' = 0
    /\ intervals' = [intervals EXCEPT !["urlMonitor"] = 0, !["iosAutoSave"] = 0]
    /\ iosPoll' = NoPoll /\ iosObserved' = "" /\ iosClearedSince' = FALSE
    /\ UNCHANGED <<iosStore, now, iosOthers>>

\* startUrlMonitoring()
IOS_startUrlMonitoring(handle, tm) == StartTimer(handle, tm, "urlMonitor")
\* stopUrlMonitoring()
IOS_stopUrlMonitoring(handle, tm) == StopTimer(handle, tm, "urlMonitor")
\* startAutoSave(intervalMs)
IOS_startAutoSave(handle, tm) == StartTimer(handle, tm, "iosAutoSave")
\* stopAutoSave()
IOS_stopAutoSave(handle, tm) == StopTimer(handle, tm, "iosAutoSave")

\* setIframe(iframe): the frame is kept and startUrlMonitoring() runs
IosSetIframe(record) ==
    LET r == IOS_startUrlMonitoring(urlMonitorInterval, intervals)
    IN  /\ intervals["urlMonitor"] <= MaxPending
        /\ iosIframe' = TRUE
        /\ urlMonitorInterval' = r.handle
        /\ intervals' = r.tm
        /\ iosPoll' = [op |-> TimerCall(record, TRUE, urlMonitorInterval, "none")]
        /\ UNCHANGED <<storageAvailable, lastUrl, iosAutoSaveInterval, lastSaveTime,
                       restoreTimers, navTimers, captureTimers, iosStore, iosFrame,
                       iosObserved, iosClearedSince, now, iosOthers>>

StopUrlMonitoring(record) ==
    LET r == IOS_stopUrlMonitoring(urlMonitorInterval, intervals)
    IN  /\ urlMonitorInterval' = r.handle
        /\ intervals' = r.tm
        /\ iosPoll' = [op |-> TimerCall(record, FALSE, urlMonitorInterval, "none")]
        /\ UNCHANGED <<storageAvailable, iosIframe, lastUrl, iosAutoSaveInterval,
                       lastSaveTime, restoreTimers, navTimers, captureTimers, iosStore,
                       iosFrame, iosObserved, iosClearedSince, now, iosOthers>>

IosStartAutoSave(record) ==
    LET r == IOS_startAutoSave(iosAutoSaveInterval, intervals)
    IN  /\ intervals["iosAutoSave"] <= MaxPending
        /\ iosAutoSaveInterval' = r.handle
        /\ intervals' = r.tm
        /\ iosPoll' = [op |-> TimerCall(record, TRUE, iosAutoSaveInterval, "none")]
        /\ UNCHANGED <<storageAvailable, iosIframe, lastUrl, urlMonitorInterval,
                       lastSaveTime, restoreTimers, navTimers, captureTimers, iosStore,
                       iosFrame, iosObserved, iosClearedSince, now, iosOthers>>

IosStopAutoSave(record) ==
    LET r == IOS_stopAutoSave(iosAutoSaveInterval, intervals)
    IN  /\ iosAutoSaveInterval' = r.handle
        /\ intervals' = r.tm
        /\ iosPoll' = [op |-> TimerCall(record, FALSE, iosAutoSaveInterval, "none")]
        /\ UNCHANGED <<storageAvailable, iosIframe, lastUrl, urlMonitorInterval,
                       lastSaveTime, restoreTimers, navTimers, captureTimers, iosStore,
                       iosFrame, iosObserved, iosClearedSince, now, iosOthers>>

\* the host page points the frame at a page
FrameLoad ==
    \E u \in Pages :
        /\ iframeSrc' = u /\ iframeHref' = u
        /\ iosPoll' = NoPoll
        /\ UNCHANGED <<iosMem, iosStore, iosObserved, iosClearedSince, now, intervals, iosOthers>>

\* the embedded application moves to another address by itself
FrameNavigate ==
    \E u \in Pages \cup {Blank} :
        /\ iframeHref' = u
        /\ iosPoll' = NoPoll
        /\ UNCHANGED <<iframeSrc, iosMem, iosStore, iosObserved, iosClearedSince, now,
                       intervals, iosOthers>>

\* the 2000 ms poll started by startUrlMonitoring
UrlMonitorTick ==
    /\ intervals["urlMonitor"] > 0
    /\ IosCaptureOnly(NoNote)
    /\ UNCHANGED <<storageAvailable, iosIframe, urlMonitorInterval, iosAutoSaveInterval,
                   restoreTimers, navTimers, captureTimers, iosFrame, now, intervals, iosOthers>>

\* the callback of the timer started by startAutoSave
AutoSaveTick(record) ==
    /\ intervals["iosAutoSave"] > 0
    /\ IosCaptureAndSave(IF record THEN Note("tick") ELSE NoNote)
    /\ UNCHANGED <<storageAvailable, iosIframe, urlMonitorInterval, iosAutoSaveInterval,
                   restoreTimers, navTimers, captureTimers, iosFrame, now, intervals, iosOthers>>

\* visibilitychange with document.hidden, pagehide, and forceSave()
HideOrForceSave ==
    /\ IosCaptureAndSave(NoNote)
    /\ UNCHANGED <<storageAvailable, iosIframe, urlMonitorInterval, iosAutoSaveInterval,
                   restoreTimers, navTimers, captureTimers, iosFrame, now, intervals, iosOthers>>

WindowBlur ==
    /\ IosCaptureOnly(NoNote)
    /\ UNCHANGED <<storageAvailable, iosIframe, urlMonitorInterval, iosAutoSaveInterval,
                   restoreTimers, navTimers, captureTimers, iosFrame, now, intervals, iosOthers>>

\* visibilitychange to visible, or pageshow with event.persisted
ShowSchedulesRestore(maxPending) ==
    /\ IosScheduled < maxPending
    /\ restoreTimers' = restoreTimers + 1
    /\ iosPoll' = NoPoll
    /\ UNCHANGED <<storageAvailable, iosIframe, lastUrl, urlMonitorInterval,
                   iosAutoSaveInterval, lastSaveTime, navTimers, captureTimers, iosStore,
                   iosFrame, iosObserved, iosClearedSince, now, intervals, iosOthers>>

OrientationChange(maxPending) ==
    /\ IosScheduled < maxPending
    /\ captureTimers' = captureTimers + 1
    /\ iosPoll' = NoPoll
    /\ UNCHANGED <<storageAvailable, iosIframe, lastUrl, urlMonitorInterval,
                   iosAutoSaveInterval, lastSaveTime, restoreTimers, navTimers, iosStore,
                   iosFrame, iosObserved, iosClearedSince, now, intervals, iosOthers>>

CaptureTimerFire ==
    /\ captureTimers > 0
    /\ captureTimers' = captureTimers - 1
    /\ IosCaptureOnly(NoNote)
    /\ UNCHANGED <<storageAvailable, iosIframe, urlMonitorInterval, iosAutoSaveInterval,
                   restoreTimers, navTimers, iosFrame, now, intervals, iosOthers>>

\* restoreState(), from a timer (fromTimer) or from forceRestore()
RestoreState(maxPending) ==
    \E fromTimer \in BOOLEAN :
        LET r == IOS_restoreState(IosM, iosIframe, storageAvailable, iframeSrc, now)
        IN  /\ fromTimer => restoreTimers > 0
            /\ restoreTimers' = IF fromTimer THEN restoreTimers - 1 ELSE restoreTimers
            /\ (r.ret = "true" /\ ~fromTimer) => IosScheduled < maxPending
            /\ navTimers' = IF r.ret = "true" THEN Append(navTimers, r.url) ELSE navTimers
            /\ iosPoll' = NoPoll
            /\ UNCHANGED <<storageAvailable, iosIframe, lastUrl, urlMonitorInterval,
                           iosAutoSaveInterval, lastSaveTime, captureTimers, iosStore,
                           iosFrame, iosObserved, iosClearedSince, now, intervals, iosOthers>>

\* the setTimeout callback of restoreState: if (this.iframe) this.iframe.src = savedUrl
NavTimerFire ==
    /\ navTimers # <<>>
    /\ navTimers' = Tail(navTimers)
    /\ IF iosIframe
       THEN iframeSrc' = Head(navTimers) /\ iframeHref' = Head(navTimers)
       ELSE UNCHANGED iosFrame
    /\ iosPoll' = NoPoll
    /\ UNCHANGED <<storageAvailable, iosIframe, lastUrl, urlMonitorInterval,
                   iosAutoSaveInterval, lastSaveTime, restoreTimers, captureTimers,
                   iosStore, iosObserved, iosClearedSince, now, intervals, iosOthers>>

\* clearState(): ok says whether the first removeItem goes through
IosClearState ==
    \E ok \in BOOLEAN :
        /\ (~storageAvailable => ok)
        /\ IF storageAvailable /\ ok
           THEN /\ iosState' = Null /\ iosUrl' = Null /\ lastUrl' = ""
                /\ iosClearedSince' = TRUE
           ELSE UNCHANGED <<iosState, iosUrl, lastUrl, iosClearedSince>>
        /\ iosPoll' = NoPoll
        /\ UNCHANGED <<storageAvailable, iosIframe, urlMonitorInterval,
                       iosAutoSaveInterval, lastSaveTime, restoreTimers, navTimers,
                       captureTimers, sessionId, iosFrame, iosObserved, now, intervals, iosOthers>>

IosNext ==
    \/ IosReload
    \/ IosSetIframe(FALSE)
    \/ StopUrlMonitoring(FALSE)
    \/ IosStartAutoSave(FALSE)
    \/ IosStopAutoSave(FALSE)
    \/ FrameLoad
    \/ FrameNavigate
    \/ UrlMonitorTick
    \/ AutoSaveTick(FALSE)
    \/ HideOrForceSave
    \/ WindowBlur
    \/ ShowSchedulesRestore(MaxPending)
    \/ OrientationChange(MaxPending)
    \/ CaptureTimerFire
    \/ RestoreState(MaxPending)
    \/ NavTimerFire
    \/ IosClearState

\* the page comes back: restore triggers (the timeouts set by visibilitychange
\* and pageshow, forceRestore) with one more timeout allowed to be waiting
\* than in IosNext
ReturnNext ==
    \/ IosSetIframe(FALSE)
    \/ FrameLoad
    \/ FrameNavigate
    \/ UrlMonitorTick
    \/ ShowSchedulesRestore(MaxPending + 1)
    \/ RestoreState(MaxPending + 1)
    \/ NavTimerFire

\* the events setupiOSLifecycleHandlers listens to: visibilitychange (to
\* hidden, to visible), pagehide, pageshow (from the cache or not), focus,
\* blur, orientationchange
LifecycleEvents ==
    {"hidden", "visible", "pagehide", "pageshow:persisted", "pageshow", "focus",
     "blur", "orientationchange"}

HandlerAlwaysSaves(ev) == [inside |-> "captureAndSave", later |-> "none"]

\* what each listener does inside the handler, and what it leaves to a timeout
Handler(ev) ==
    CASE ev \in {"hidden", "pagehide"} -> [inside |-> "captureAndSave", later |-> "none"]
      [] ev \in {"visible", "pageshow:persisted"} -> [inside |-> "none", later |-> "restore"]
      [] ev = "blur" -> [inside |-> "capture", later |-> "none"]
      [] ev = "orientationchange" -> [inside |-> "none", later |-> "capture"]
      [] OTHER -> [inside |-> "none", later |-> "none"]

\* one of these events is dispatched
LifecycleEvent(maxPending) ==
    \E ev \in LifecycleEvents :
        LET h == Handler(ev)
        IN  /\ h.later # "none" => IosScheduled < maxPending
            /\ restoreTimers' = restoreTimers + (IF h.later = "restore" THEN 1 ELSE 0)
            /\ captureTimers' = captureTimers + (IF h.later = "capture" THEN 1 ELSE 0)
            /\ CASE h.inside = "captureAndSave" -> IosCaptureAndSave(Note(ev))
                 [] h.inside = "capture" -> IosCaptureOnly(Note(ev))
                 [] OTHER -> /\ iosPoll' = [op |-> "none", event |-> ev, basic |-> "none"]
                             /\ UNCHANGED <<lastUrl, lastSaveTime, iosStore, iosObserved,
                                            iosClearedSince>>
            /\ UNCHANGED <<storageAvailable, iosIframe, urlMonitorInterval,
                           iosAutoSaveInterval, navTimers, iosFrame, now, intervals,
                           iosOthers>>

\* the lifecycle events and the timeouts they set
EventsNext ==
    \/ IosReload
    \/ IosSetIframe(FALSE)
    \/ FrameLoad
    \/ FrameNavigate
    \/ LifecycleEvent(MaxPending)
    \/ CaptureTimerFire
    \/ RestoreState(MaxPending)
    \/ NavTimerFire

\* time passes in the host page
IosClock(maxClock) ==
    /\ now < maxClock
    /\ now' = now + 1
    /\ iosPoll' = NoPoll
    /\ UNCHANGED <<iosMem, iosStore, iosFrame, iosObserved, iosClearedSince, intervals,
                   iosOthers>>

\* the auto-save timer of the Lifecycle manager over page loads of one
\* browser session, with the clock running
SessionNext ==
    \/ IosReload
    \/ IosSetIframe(FALSE)
    \/ IosStartAutoSave(FALSE)
    \/ IosStopAutoSave(FALSE)
    \/ FrameLoad
    \/ FrameNavigate
    \/ AutoSaveTick(TRUE)
    \/ IosClearState
    \/ IosClock(MaxClock)

(* ------------- TI89StateManager with overlapping saveState ------------- *)
\* the saving side of one State Manager session, with one more saveState call
\* allowed to be suspended at a time than in Next
OverlapNext ==
    \/ InitStorageDone
    \/ SetIframe(MaxListeners)
    \/ Message(MaxPending + 1)
    \/ SaveStateCall(MaxPending + 1)
    \/ SaveStateResume(MaxClock, TRUE)
    \/ ClearState(FALSE)

(* ---------------- TI89StateManager: save after clear ------------------- *)
\* one State Manager session in which clearState() notes what it removed
ClearNext ==
    \/ InitStorageDone
    \/ SaveStateCall(MaxPending)
    \/ SaveStateResume(MaxClock, FALSE)
    \/ LoadStateCall
    \/ LoadStateDone
    \/ ClearState(TRUE)

(* ------------- TI89StateManager with several listeners ---------------- *)
\* a message arrives while no saveState call is suspended: the calls its
\* listeners make are the only ones in flight until they have completed
MessageAlone ==
    /\ pendingSaves = <<>>
    /\ Message(MaxListeners + 1)

\* setIframe() called more than once in one State Manager session, and the
\* messages delivered to every listener it has registered
ListenersNext ==
    \/ InitStorageDone
    \/ SetIframe(MaxListeners + 1)
    \/ MessageAlone
    \/ SaveStateResume(MaxClock, TRUE)
    \/ ClearState(FALSE)

(* ---------------- the repeating timers of all components ---------------- *)
\* every start and stop operation and every timer callback, within one page
\* load of the host and of the frame
TimersNext ==
    \/ SetIframe(MaxListeners)
    \/ StartAutoSave(TRUE)
    \/ StopAutoSave(TRUE)
    \/ RequestStateFromCalculator(MaxPending)
    \/ IosSetIframe(TRUE)
    \/ StopUrlMonitoring(TRUE)
    \/ IosStartAutoSave(TRUE)
    \/ IosStopAutoSave(TRUE)
    \/ UrlMonitorTick
    \/ AutoSaveTick(FALSE)
    \/ StartTimerFire(TRUE)
    \/ ParentMessage(TRUE)
    \/ CaptureTick

(* --------------------------- specifications ---------------------------- *)
\* the Bounded Fallback Store on its own
SpecFallback == Init /\ [][FBNext]_vars

\* the Bounded Fallback Store while the key-value API comes and goes
SpecOutage == Init /\ [][OutageNext]_vars

\* the Bounded Fallback Store with backups taken and played back
SpecBackup == Init /\ [][BackupNext]_vars

\* the State Manager over both tiers
Spec == Init /\ [][Next]_vars

\* the Lifecycle-Driven Fallback Manager; its handlers run within one clock
\* reading, so every timestamp it writes is the value of now
SpecLifecycle == Init /\ [][IosNext]_vars

\* the Lifecycle manager's event listeners
SpecEvents == Init /\ [][EventsNext]_vars

\* the Lifecycle manager's auto-save over one browser session
SpecSession == Init /\ [][SessionNext]_vars

\* the Capture Bridge in the frame, with the State Manager's auto-save timer
\* asking it for snapshots
SpecBridge == Init /\ [][BridgeNext]_vars

\* the Capture Bridge restoring states sent by the host
SpecRestore == Init /\ [][RestoreNext]_vars

\* the State Manager with saveState calls overlapping
SpecOverlap == Init /\ [][OverlapNext]_vars

\* the iOS manager when the page comes back to the foreground
SpecReturn == Init /\ [][ReturnNext]_vars

\* one State Manager session, with saves, loads and clears
SpecClear == Init /\ [][ClearNext]_vars

\* one State Manager session with setIframe() called more than once
SpecListeners == Init /\ [][ListenersNext]_vars

\* the auto-save, address-poll and auto-capture timers together
SpecTimers == Init /\ [][TimersNext]_vars

(* ------------------------------ properties ------------------------------ *)
\* what loadState() resolves to when the storage calls it makes go through
LoadsNow ==
    SM_loadState(db, useIndexedDB, fallbackStorage, idb, localStorage, "ok", TRUE).ret

C2_FallbackTakesOver ==
    (smLastSave # Null /\ smLastSave.after = "sameThrown")
        => (smLastSave.wrote = "ls" /\ LoadsNow = smLastSave.state)

\* C3: the promise returned by the State Manager's loadState() never rejects.
C3_LoadNeverRejects ==
    smEvent.op = "load" => smEvent.ret # Rejected

\* C4: once clearState() has removed the active tier's record and nothing
\* has been written since, loadState() resolves to null (NoState), and so
\* does every loadState() that settled in that situation without a storage
\* error; on the Fallback Store, loadState() after clearState() returns null
\* whatever the stored unit was.
C4_LoadAfterClear ==
    /\ smCleared => LoadsNow = NoState
    /\ (smCleared /\ smEvent.op = "load" /\ smEvent.ret # Rejected)
          => smEvent.ret = NoState
    /\ FB_loadState(FB_clearState(localStorage, TRUE), TRUE) = NoState

C4_Witness ==
    /\ smCleared
    /\ smEvent.op = "load" /\ smEvent.ret = NoState
    /\ now >= 1
    /\ (db /\ useIndexedDB) \/ fallbackStorage

\* C5: a step that delivers a message with another origin, without the type
\* TI89_STATE, or without a state changes neither the stored records, nor
\* lastStateHash, nor the saveState calls in progress.
C5_MalformedMessageIgnored ==
    [][smEvent'.op = "malformed"
         => UNCHANGED <<idb, localStorage, lastStateHash, pendingSaves>>]_varsText

C5_Witness ==
    /\ smEvent.op = "malformed"
    /\ listeners >= 1
    /\ idb # Null
    /\ lastStateHash # NoHash

\* C6: whatever saveState calls were made, the history that saveState
\* persists never holds more than maxStates entries (an imported history is
\* the importer's, until saveState next rewrites it).
C6_HistoryBounded ==
    ~fbImported => Len(HistoryOf(localStorage)) <= maxStates

C6_Witness ==
    /\ fbLast.op = "save" /\ fbLast.path = "written"
    /\ fbAdded > maxStates
    /\ Len(HistoryOf(localStorage)) = maxStates

C8_QuotaRetry ==
    (fbLast.op = "save" /\ fbLast.io.first = "quota") =>
        /\ fbLast.io.retry \in {"ok", "fail"}
        /\ fbLast.io.retry = "ok" =>
              /\ fbLast.ret = "true"
              /\ localStorage # Null
              /\ localStorage.history = <<>>
              /\ localStorage.current.state = fbLast.state
              /\ FB_loadState(localStorage, TRUE) = fbLast.state
        /\ fbLast.io.retry = "fail" =>
              /\ fbLast.ret = "false"
              /\ fbLast.io.clearOld = "ok" => localStorage.history = <<>>

C8_Witness ==
    /\ fbLast.op = "save" /\ fbLast.io = [first |-> "quota", clearOld |-> "ok", retry |-> "ok"]
    /\ fbAdded = 0
    /\ localStorage = Unit(Entry(2, now), <<>>)

\* C9: a capture that reads a saveable address (non-empty, not about:blank)
\* other than the last saveable address read hands exactly one state to
\* saveState, carrying that address; a capture that reads the same saveable
\* address again hands none, unless clearState() ran in between: then it hands
\* exactly one, carrying the address again.
C9_PollSavesOnChange ==
    iosPoll.op = "poll" =>
        /\ iosPoll.observed = "changed" => (iosPoll.fired = 1 /\ iosPoll.carried)
        /\ (iosPoll.observed = "same" /\ ~iosPoll.cleared) => iosPoll.fired = 0
        /\ (iosPoll.observed = "same" /\ iosPoll.cleared)
              => (iosPoll.fired = 1 /\ iosPoll.carried)

C9_Witness ==
    /\ iosPoll.op = "poll"
    /\ iosPoll.observed = "same" /\ ~iosPoll.cleared /\ iosPoll.fired = 0
    /\ lastUrl \in Pages
    /\ iosUrl = lastUrl
    /\ iosState # Null /\ iosState.state.url = lastUrl

\* C9 as stated: a capture that reads the same saveable address as the last
\* one hands no state to saveState, whatever happened in between.
C9_EveryLaterPollSilent ==
    iosPoll.op = "poll" =>
        /\ iosPoll.observed = "changed" => (iosPoll.fired = 1 /\ iosPoll.carried)
        /\ iosPoll.observed = "same" => iosPoll.fired = 0

C11_OneWayLatch ==
    [][(~useIndexedDB /\ ~initPending')
          => /\ ~useIndexedDB'
             /\ idb' = idb
             /\ (pendingLoad' = pendingLoad \/ pendingLoad' = <<>>)
             /\ (smEvent'.op = "load" => smEvent'.ret # Rejected)]_varsText

\* a failed write has switched the flag off while the database is open, and a
\* later saveState has run to its end without going to IndexedDB
C11_Witness ==
    /\ ~useIndexedDB /\ db
    /\ smLastSave # Null
    /\ smLastSave.wrote = "noTier"

\* C12: a saveState call that got past the digest test remembers the digest
\* and shows 'Saved' exactly when one of its tier writes succeeded
C12_DigestIffWritten ==
    (smLastSave # Null /\ smLastSave.wrote # "dedup")
        => /\ smLastSave.shown <=> smLastSave.wrote \in {"idb", "ls"}
           /\ (lastStateHash = hashString(JSONstringify(smLastSave.state)))
                  <=> smLastSave.wrote \in {"idb", "ls"}

\* C13: a capture posts a message only when the page's content differs from
\* the content of the last snapshot emitted, so captures taken while the
\* content is unchanged emit at most one message
C13_RedundantSuppressed ==
    [][(cbEvent'.posted = 1 /\ lastScreenCapture' # lastScreenCapture)
          => (lastScreenCapture = Null \/ lastScreenCapture[2].content # cbContent)]_varsText

\* C19: REQUEST_STATE messages that arrive while a requested capture is
\* pending set no further timeout, so one timeout is pending at most and its
\* callback runs captureCalculatorState once; a REQUEST_STATE that arrives
\* when none is pending sets a new timeout
C19_RequestDebounce ==
    [][/\ requestTimers' <= 1
       /\ stateRequestPending' <=> requestTimers' = 1
       /\ (cbEvent'.op = "ignored" /\ stateRequestPending)
             => UNCHANGED <<requestTimers, stateRequestPending>>
       /\ (cbEvent'.op = "scheduled" /\ ~stateRequestPending)
             => (requestTimers' = 1 /\ stateRequestPending')
       /\ requestTimers' < requestTimers
             => (BridgeLoad \/ cbEvent'.captures = 1)]_varsText

\* a REQUEST_STATE has just been dropped because a requested capture is
\* still waiting for its timeout
C19_Witness ==
    /\ cbEvent.op = "ignored"
    /\ stateRequestPending
    /\ requestTimers = 1

\* C20: the beforeunload and pagehide handlers and the visibilitychange
\* handler with the document hidden run captureCalculatorState exactly once;
\* the visibilitychange handler with the document visible runs no capture
C20_ForcedCapture ==
    /\ cbEvent.op \in {"unload", "hidden"} => cbEvent.captures = 1
    /\ cbEvent.op = "visible" => cbEvent.captures = 0

\* the document has just become visible again after a capture had been emitted
C20_Witness ==
    /\ cbEvent.op = "visible"
    /\ ~cbHidden
    /\ lastScreenCapture # Null

\* everything the program itself holds or stores (the records of past steps
\* left out)
progVars ==
    <<localStorage, now, smMem, idb, iosMem, iosStore, iosFrame, timerVars, cbMem,
      cbPage>>

\* C17: a stop operation called while its timer is not running (never
\* started, or stopped by the call before) changes nothing: State Manager
\* stopAutoSave, Lifecycle manager stopAutoSave and stopUrlMonitoring, Capture
\* Bridge stopStateCapture (reached by STOP_AUTO_CAPTURE)
C17_StopIdempotent ==
    [][(\/ smEvent'.op = "idleStop" /\ smEvent.op # "idleStop"
        \/ iosPoll'.op = "idleStop" /\ iosPoll.op # "idleStop"
        \/ cbEvent'.op = "idleStop" /\ cbEvent.op # "idleStop")
          => UNCHANGED progVars]_varsText

\* each component's last timer call was a stop that found no timer running
C17_Witness ==
    /\ smEvent.op = "idleStop"
    /\ iosPoll.op = "idleStop"
    /\ cbEvent.op = "idleStop"
    /\ intervals = NoTimers

\* C18: at most one repeating timer of each kind is running, and it is the
\* one the component's handle holds
C18_AtMostOneTimer ==
    /\ \A k \in TimerKinds : intervals[k] <= 1
    /\ autoSaveInterval <=> intervals["smAutoSave"] = 1
    /\ iosAutoSaveInterval <=> intervals["iosAutoSave"] = 1
    /\ urlMonitorInterval <=> intervals["urlMonitor"] = 1
    /\ captureInterval <=> intervals["capture"] = 1

\* each component's last timer call was a start that found a timer running,
\* and one timer of each kind is running
C18_Witness ==
    /\ smEvent.op = "restart"
    /\ iosPoll.op = "restart"
    /\ cbEvent.op = "restart"
    /\ \A k \in TimerKinds : intervals[k] = 1

\* C14: no operation, timer callback or event handler ends in an uncaught
\* exception in any reachable state; for the Lifecycle manager's restoreState()
\* (public through forceRestore(), and the callback of the timers set on
\* visibilitychange and pageshow): called in the current state, it returns
\* true or false
C14_NoUncaughtException ==
    IOS_restoreState(IosM, iosIframe, storageAvailable, iframeSrc, now).ret
        \in {"true", "false"}

\* C15: on the Capture Bridge to State Manager path the write a forced capture
\* leads to is started before the handler returns: the step in which the
\* State Manager's listener (or a caller) hands a snapshot to saveState also
\* starts the write to one of the tiers, no call is left suspended before it
C15_WriteStartedInHandler ==
    [][Len(pendingSaves') > Len(pendingSaves)
          => (idb' # idb \/ localStorage' # localStorage)]_varsText

\* the snapshot held by the tier this session writes to
StoredState ==
    IF db THEN (IF idb = Null THEN NoState ELSE idb.state)
    ELSE FB_loadState(localStorage, TRUE)

\* C16: when a saveState call completes that was suspended while the call
\* before it completed (the two overlapped): if that call wrote the same
\* content, this one is skipped and writes nothing; if this one writes, the
\* stored record is its snapshot from then on; if it does not write, the
\* stored record stays what the last completed write made it
C16_OverlappingSaves ==
    [][(/\ Len(pendingSaves') < Len(pendingSaves)
        /\ smLastSave' # Null
        /\ smLastSave'.overlap)
          => /\ smLastSave'.after = "sameCommitted" => smLastSave'.wrote = "dedup"
             /\ smLastSave'.wrote \in {"idb", "ls"} => StoredState' = smLastSave'.state
             /\ smLastSave'.wrote \notin {"idb", "ls"} => StoredState' = StoredState]_varsText

\* two overlapping saves of the same content have completed: the first wrote,
\* the second was skipped, and the record holds the content
C16_Witness ==
    /\ smLastSave # Null
    /\ smLastSave.overlap
    /\ smLastSave.after = "sameCommitted"
    /\ smLastSave.wrote = "dedup"
    /\ StoredState = smLastSave.state
    /\ pendingSaves = <<>>

\* the stored unit with its history replaced
WithHistory(ls, h) == IF ls = Null THEN ls ELSE Unit(ls.current, h)

\* C21: the Fallback Store's loadState() returns the state of the stored
\* unit's current record and null when there is no current record, whatever
\* the history holds (the same unit with an empty or a longer history loads
\* the same); after a saveState(S) that reported true it returns S
C21_LoadUsesCurrentOnly ==
    /\ FB_loadState(localStorage, TRUE) =
          (IF localStorage = Null \/ localStorage.current = Null THEN NoState
           ELSE localStorage.current.state)
    /\ \A h \in {<<>>, Append(HistoryOf(localStorage), Entry(2, now + 1))} :
          FB_loadState(WithHistory(localStorage, h), TRUE)
              = FB_loadState(localStorage, TRUE)
    /\ (fbLast.op = "save" /\ fbLast.ret = "true")
          => FB_loadState(localStorage, TRUE) = fbLast.state
    /\ (fbLast.op = "load" /\ fbLast.api)
          => fbLast.state = FB_loadState(localStorage, TRUE)

\* loadState() has just returned null from a unit without a current record
\* whose history holds an entry
C21_Witness ==
    /\ fbLast.op = "load" /\ fbLast.api /\ fbLast.state = NoState
    /\ localStorage # Null
    /\ localStorage.current = Null
    /\ localStorage.history # <<>>

\* the unit importData stores for a payload
UnitOf(p) == Unit(p.current, p.states)

\* C22: importData of what exportData() returned leaves the stored unit as it
\* was when exportData() was called (for an empty store: a unit without
\* current record and with an empty history), whatever was stored in between;
\* an importData that reports true has replaced the stored unit by the
\* payload's, with the payload's whole history
C22_ExportImportRoundTrip ==
    /\ (fbLast.op = "restore" /\ fbLast.ret = "true" /\ backup.avail)
          => localStorage = (IF backup.of = Null THEN Unit(Null, <<>>) ELSE backup.of)
    /\ (fbLast.op \in {"import", "restore"} /\ fbLast.ret = "true")
          => \E p \in (ImportPayloads \ {Null})
                          \cup (IF backup = Null THEN {} ELSE {backup.data}) :
                 localStorage = UnitOf(p)
    /\ \A before \in {Null, localStorage, Unit(Entry(1, 0), <<>>)} :
          importData(before, TRUE, exportData(localStorage, TRUE, TRUE, now), "ok").ls
              = (IF localStorage = Null THEN Unit(Null, <<>>) ELSE localStorage)

\* a backup of an over-long imported unit was taken, the store was
\* overwritten by saveState, and importData(backup) has brought the unit back
C22_Witness ==
    /\ fbLast.op = "restore" /\ fbLast.ret = "true"
    /\ backup.avail
    /\ backup.of # Null
    /\ Len(backup.of.history) > maxStates
    /\ backup.data.timestamp < now
    /\ localStorage = backup.of

\* C23: a saveState, loadState, clearState, getAllStates, clearOldStates or
\* importData call made while the key-value API does not work changes nothing
\* that is stored and ends normally with its empty result (undefined, null,
\* [] or false); a saveState made after such a call, with the API working
\* again, stores its snapshot
C23_UnavailableNoOp ==
    [][/\ ~fbLast'.api
            => /\ localStorage' = localStorage
               /\ fbLast'.op \in {"save", "clear", "clearOld"} => fbLast'.ret = "undefined"
               /\ fbLast'.op = "load" => fbLast'.state = NoState
               /\ fbLast'.op = "getAll" => fbLast'.ret = "empty"
               /\ fbLast'.op = "import" => fbLast'.ret = "false"
       /\ (~fbLast.api /\ fbLast'.api /\ fbLast'.op = "save" /\ fbLast'.state # NoState
              /\ fbLast'.io.first = "ok")
            => /\ fbLast'.ret = "true"
               /\ FB_loadState(localStorage', TRUE) = fbLast'.state]_varsText

\* a saveState call has just been skipped because the API does not work,
\* while a unit with an over-long imported history is stored
C23_Witness ==
    /\ fbLast.op = "save" /\ ~fbLast.api /\ fbLast.state # NoState
    /\ localStorage # Null
    /\ Len(localStorage.history) > maxStates

\* the address restoreState() finds saved ("" when there is none)
SavedUrl ==
    LET savedData == IOS_loadState(IosM, storageAvailable, now)
    IN  IF savedData = Null THEN "" ELSE savedData.state.url

\* C24: restoreState() returns true exactly when a saved address exists, is
\* not about:blank and differs from the frame's address, and false otherwise;
\* a navigation is scheduled exactly in the first case, to the saved address,
\* and when its delay is over the frame is at that address
C24_RestoreDecision ==
    [][/\ IOS_restoreState(IosM, iosIframe, storageAvailable, iframeSrc, now).ret
            = (IF SavedUrl # "" /\ SavedUrl # Blank /\ SavedUrl # iframeSrc
               THEN "true" ELSE "false")
       /\ Len(navTimers') > Len(navTimers)
            => /\ SavedUrl # "" /\ SavedUrl # Blank /\ SavedUrl # iframeSrc
               /\ navTimers' = Append(navTimers, SavedUrl)
       /\ (navTimers # <<>> /\ navTimers' = Tail(navTimers) /\ iosIframe')
            => iframeSrc' = Head(navTimers)]_varsText

\* C25: a tick of the Lifecycle manager's auto-save timer whose write of the
\* record goes through stores {sessionId, lastActive, url, userAgent} with the
\* time of the tick and the frame's src, whether the address read was new,
\* unchanged or unsaveable; the sessionId stored is the one kept for the
\* browser session, which never changes once it exists
C25_TickSavesBasicState ==
    [][/\ ToString(sessionId) # ToString(Null)
            => ToString(sessionId') = ToString(sessionId)
       /\ ("event" \in DOMAIN iosPoll' /\ iosPoll'.event = "tick"
              /\ iosPoll'.basic \in {"ok", "fail2"})
            => /\ ToString(sessionId') # ToString(Null)
               /\ iosState' = IosStateData(BasicState(sessionId', now,
                                                      IF iosIframe THEN iframeSrc ELSE ""),
                                           now)]_varsText

\* a tick after the clock has moved on and the page was at an address already
\* saved: the record written carries the session id made at time 0
C25_Witness ==
    /\ iosPoll.op = "poll" /\ iosPoll.observed = "same"
    /\ "event" \in DOMAIN iosPoll /\ iosPoll.event = "tick" /\ iosPoll.basic = "ok"
    /\ now >= 1
    /\ ToString(sessionId) = ToString(<<"ios", 0>>)
    /\ iosState.state = BasicState(sessionId, now, iframeSrc)

\* the event whose handler the step has run ("": the step is something else)
EventOf(poll) == IF "event" \in DOMAIN poll THEN poll.event ELSE ""

\* C26: what each lifecycle event does.  visibilitychange to hidden and
\* pagehide: a capture and a basic-state save inside the handler, no timeout;
\* visibilitychange to visible and pageshow from the cache: one restore
\* timeout and nothing else; pageshow not from the cache: nothing; blur: a
\* capture, no basic-state save, no timeout; orientationchange: one capture
\* timeout and nothing else
C26_EventMapping ==
    [][LET ev == EventOf(iosPoll')
           ran == iosIframe /\ storageAvailable
           noTimeout == UNCHANGED <<restoreTimers, captureTimers, navTimers>>
           noWork == /\ UNCHANGED <<lastUrl, lastSaveTime>>
                     /\ ToString(iosStore') = ToString(iosStore)
           captured == /\ ran <=> iosPoll'.op = "poll"
                       /\ (ran /\ iosPoll'.observed = "changed") => lastUrl' = iosObserved'
       IN  /\ ev \in {"hidden", "pagehide"}
                => /\ noTimeout
                   /\ captured
                   /\ ToString(sessionId') # ToString(Null)
                   /\ iosPoll'.basic \in {"ok", "fail2"}
                         => iosState' = IosStateData(
                                BasicState(sessionId', now,
                                           IF iosIframe THEN iframeSrc ELSE ""), now)
           /\ ev \in {"visible", "pageshow:persisted"}
                => /\ restoreTimers' = restoreTimers + 1
                   /\ UNCHANGED <<captureTimers, navTimers>>
                   /\ noWork
           /\ ev = "pageshow" => (noTimeout /\ noWork)
           /\ ev = "blur"
                => /\ noTimeout
                   /\ captured
                   /\ ToString(sessionId') = ToString(sessionId)
                   /\ iosPoll'.basic = "none"
                   /\ \/ iosState' = iosState
                      \/ iosState' = IosStateData(CaptureState(lastUrl', now), now)
           /\ ev = "orientationchange"
                => /\ captureTimers' = captureTimers + 1
                   /\ UNCHANGED <<restoreTimers, navTimers>>
                   /\ noWork]_varsText

\* the window has lost focus with the frame at a new address: the capture
\* has stored it, and no basic-state record or session id has been made
C26_Witness ==
    /\ EventOf(iosPoll) = "blur"
    /\ iosPoll.op = "poll" /\ iosPoll.fired = 1
    /\ sessionId = Null
    /\ iosState = IosStateData(CaptureState(lastUrl, now), now)
    /\ restoreTimers = 1

\* C27: in restoreCalculatorState a sub-step that fails does not keep the
\* others from being attempted: every part the state carries has its sub-step
\* run, whichever sub-steps throw
C27_SubStepsIndependent ==
    cbEvent.op = "restore" => cbEvent.attempted = cbEvent.present

\* C28: whenever lastStateHash is set, the active tier holds a record and
\* lastStateHash is the digest of the state loadState() would return
C28_DigestMatchesStore ==
    lastStateHash # NoHash
        => /\ LoadsNow # NoState
           /\ lastStateHash = hashString(JSONstringify(LoadsNow))

\* C29: every saveState(S) call that gets past the digest test goes to a
\* tier: it writes, or its write is attempted and fails; no call ends
\* without having tried either tier, also not one made before initStorage()
\* has settled
C29_NoSnapshotLost ==
    (smLastSave # Null /\ smLastSave.wrote # "dedup")
        => smLastSave.wrote \in {"idb", "ls", "failed", "thrown"}

\* the address-change save of the last address observed is what is persisted:
\* the stored record's url and the last-URL key both hold it
PersistedIs(u, st, key) == st # Null /\ st.state.url = u /\ ToString(key) = ToString(u)

\* C30: while the persisted restore address is the last address a capture
\* observed and saved, a step that neither observes another address nor is
\* clearState leaves it in place: the basic-state saves of the auto-save
\* timer and of the lifecycle events do not put another address there
C30_PersistedAddressKept ==
    [][(/\ iosObserved # "" /\ ~iosClearedSince
        /\ PersistedIs(iosObserved, iosState, iosUrl)
        /\ iosObserved' = iosObserved /\ ~iosClearedSince')
          => PersistedIs(iosObserved, iosState', iosUrl')]_varsText

\* a completed call that reached a storage tier: it wrote, or its write was
\* issued and failed
Wrote == {"idb", "ls", "failed", "thrown"}

\* C31: with several listeners registered, the saveState calls one accepted
\* message triggers produce at most one storage write in any resume order:
\* a call that completes after another call of the same message has written
\* or has been skipped (with no clearState in between) writes nothing
C31_OneWritePerMessage ==
    [][(/\ Len(pendingSaves') < Len(pendingSaves)
        /\ smLastSave # Null
        /\ smLastSave.wrote \in Wrote \cup {"dedup"}
        /\ smLastSave'.overlap)
          => /\ smLastSave'.state = smLastSave.state
             /\ smLastSave'.wrote \notin Wrote
             /\ UNCHANGED <<idb, localStorage>>]_varsText

\* two listeners are registered and both calls of one message have completed:
\* the first wrote the snapshot to IndexedDB, the second was skipped
C31_Witness ==
    /\ listeners = MaxListeners + 1
    /\ pendingSaves = <<>>
    /\ smLastSave # Null
    /\ smLastSave.overlap
    /\ smLastSave.wrote = "dedup"
    /\ smLastSave.after = "sameCommitted"
    /\ idb # Null /\ idb.state = smLastSave.state

\* C32: when loadState() returns a snapshot S, from IndexedDB (onsuccess) or
\* from the fallback store, lastStateHash is the digest of S, so that a
\* saveState(S) called next finds the digest equal and writes nothing
C32_LoadPrimesDedup ==
    [][/\ (pendingLoad # <<>> /\ pendingLoad' = <<>> /\ ~initPending')
            => SameDigest(lastStateHash',
                          hashString(JSONstringify(pendingLoad[1].ret)))
       /\ (smEvent'.op = "load" /\ smEvent'.ret \in States)
            => SameDigest(lastStateHash',
                          hashString(JSONstringify(smEvent'.ret)))]_varsText

C34_FailedSaveKeepsRestorePoint ==
    [][(fbLast'.op = "save" /\ fbLast'.ret = "false")
          => /\ FB_loadState(localStorage', TRUE) = FB_loadState(localStorage, TRUE)
             /\ fbLast'.io.first = "error" => localStorage' = localStorage
             /\ fbLast'.io.first = "quota"
                   => localStorage' \in {localStorage, WithHistory(localStorage, <<>>)}]_varsText

\* a save of another snapshot has failed on the quota and again on the retry,
\* clearOldStates() has emptied a history of several entries, and the store
\* still loads the snapshot saved before
C34_Witness ==
    /\ fbLast.op = "save" /\ fbLast.ret = "false"
    /\ fbLast.io = [first |-> "quota", clearOld |-> "ok", retry |-> "fail"]
    /\ localStorage # Null /\ localStorage.history = <<>>
    /\ localStorage.current # Null
    /\ localStorage.current.timestamp + 2 <= now
    /\ FB_loadState(localStorage, TRUE) \notin {NoState, fbLast.state}

\* C35: restore triggers arriving before a scheduled navigation has fired do
\* not schedule a second navigation to the same saved address, so the frame
\* is navigated to it at most once; and once a navigation to the saved
\* address has been made, restoreState() returns false
C35_RestoreNotDuplicated ==
    [][/\ \A i, j \in DOMAIN navTimers' :
            i # j => navTimers'[i] # navTimers'[j]
       /\ (/\ navTimers # <<>> /\ navTimers' = Tail(navTimers)
           /\ iosIframe /\ Head(navTimers) = SavedUrl)
            => IOS_restoreState(IosM, iosIframe, storageAvailable, iframeSrc', now).ret
                  = "false"]_varsText

====
